---- MODULE Spec2Model ----
(***************************************************************************)
(* Query engine of the ML-chatbot repository: QueryParser (text -> Intent), *)
(* QueryPlanner (Intent -> Plan), QueryExecutor (Plan -> answer_data) with  *)
(* the DataStore cache and the DataFetcher retrieval it relies on.          *)
(*                                                                         *)
(* Python values are represented as follows.                               *)
(*   dict      a function from key strings to values                       *)
(*   None      the string None below (only where a string is expected)     *)
(*   DataFrame a record [columns |-> <<names>>, rows |-> <<row, ...>>],    *)
(*             a row being a function from column names to cell values     *)
(*   a call that may raise, or whose result depends on the network, is an  *)
(*   operator returning the SET of its possible outcomes, each a record    *)
(*   with a field raised                                                   *)
(***************************************************************************)
EXTENDS Integers, Sequences, FiniteSets, TLC

None == "<None>"

\* dict.get(k) with the default None
Get(d, k) == IF k \in DOMAIN d THEN d[k] ELSE None

\* d[k] = v on a dict
Put(d, k, v) == [x \in (DOMAIN d) \cup {k} |-> IF x = k THEN v ELSE d[x]]

EmptyDict == [x \in {} |-> None]

Range(s) == {s[i] : i \in DOMAIN s}

(***************************************************************************)
(* str.lower() on the strings the model uses: every string that is not     *)
(* listed is already lower case.                                           *)
(***************************************************************************)
LowerMap ==
  [s \in {"State_Name", "STATE", "State", "STATE/UT", "STATE_UT_NAME", "State Name",
          "District_Name", "District", "DISTRICT", "District Name",
          "Crop", "CROP", "Crop_Name", "Commodity", "CROP_NAME",
          "Production", "PRODUCTION", "Prodn", "PROD", "Prod",
          "Year", "YEAR", "ANNUAL", "Annual", "ANN", "Rainfall", "SUBDIVISION",
          "Karnataka", "KARNATAKA", "Punjab", "Wheat", "Rice", "Karnatak", "Compare",
          "Mysuru", "Ludhiana", "Amritsar"} |->
     CASE s = "State_Name" -> "state_name" [] s = "STATE" -> "state" [] s = "State" -> "state"
       [] s = "STATE/UT" -> "state/ut" [] s = "STATE_UT_NAME" -> "state_ut_name"
       [] s = "State Name" -> "state name"
       [] s = "District_Name" -> "district_name" [] s = "District" -> "district"
       [] s = "DISTRICT" -> "district" [] s = "District Name" -> "district name"
       [] s = "Crop" -> "crop" [] s = "CROP" -> "crop" [] s = "Crop_Name" -> "crop_name"
       [] s = "Commodity" -> "commodity" [] s = "CROP_NAME" -> "crop_name"
       [] s = "Production" -> "production" [] s = "PRODUCTION" -> "production"
       [] s = "Prodn" -> "prodn" [] s = "PROD" -> "prod" [] s = "Prod" -> "prod"
       [] s = "Year" -> "year" [] s = "YEAR" -> "year"
       [] s = "ANNUAL" -> "annual" [] s = "Annual" -> "annual" [] s = "ANN" -> "ann"
       [] s = "Rainfall" -> "rainfall" [] s = "SUBDIVISION" -> "subdivision"
       [] s = "Karnataka" -> "karnataka" [] s = "KARNATAKA" -> "karnataka"
       [] s = "Punjab" -> "punjab" [] s = "Wheat" -> "wheat" [] s = "Rice" -> "rice"
       [] s = "Karnatak" -> "karnatak" [] s = "Compare" -> "compare"
       [] s = "Mysuru" -> "mysuru" [] s = "Ludhiana" -> "ludhiana"
       [] s = "Amritsar" -> "amritsar"]

Lower(s) == IF s \in DOMAIN LowerMap THEN LowerMap[s] ELSE s

(***************************************************************************)
(* DataFrames                                                              *)
(***************************************************************************)
EmptyDF == [columns |-> <<>>, rows |-> <<>>]

\* DataFrame.empty: no rows or no columns
IsEmpty(df) == Len(df.rows) = 0 \/ Len(df.columns) = 0

HasCol(df, c) == \E i \in DOMAIN df.columns : df.columns[i] = c

\* the column that {c.lower(): c for c in df.columns} keeps for a lower-case
\* key: the last column with that lower-case spelling
LowerMapCol(df, lc) ==
  LET idx == {i \in DOMAIN df.columns : Lower(df.columns[i]) = lc}
  IN  df.columns[CHOOSE i \in idx : \A j \in idx : j <= i]

\* a resolver without the exact pass: the column of the first candidate
\* that matches case-insensitively
find_col_case_blind(df, candidates) ==
  LET ci == {i \in DOMAIN candidates :
               \E k \in DOMAIN df.columns : Lower(df.columns[k]) = Lower(candidates[i])}
  IN  IF ci # {} THEN LowerMapCol(df, Lower(candidates[CHOOSE i \in ci : \A j \in ci : i <= j]))
      ELSE None

\* a resolver that returns the candidate's spelling, not the column's
find_col_spelling(df, candidates) ==
  LET ci == {i \in DOMAIN candidates :
               \E k \in DOMAIN df.columns : Lower(df.columns[k]) = Lower(candidates[i])}
  IN  IF ci # {} THEN candidates[CHOOSE i \in ci : \A j \in ci : i <= j] ELSE None

\* find_col / pick: exact match over all candidates first, then the
\* case-insensitive match over all candidates; None when nothing matches
find_col(df, candidates) ==
  LET exact == {i \in DOMAIN candidates : HasCol(df, candidates[i])}
      ci    == {i \in DOMAIN candidates :
                  \E k \in DOMAIN df.columns : Lower(df.columns[k]) = Lower(candidates[i])}
  IN  IF exact # {} THEN candidates[CHOOSE i \in exact : \A j \in exact : i <= j]
      ELSE IF ci # {}
        THEN LowerMapCol(df, Lower(candidates[CHOOSE i \in ci : \A j \in ci : i <= j]))
        ELSE None

(***************************************************************************)
(* Tables the remote endpoints can answer with.  DistrictTable carries all *)
(* five district roles, NoYearTable lacks the year column, JunkTable is    *)
(* some other dataset.                                                     *)
(***************************************************************************)
\* cells: a text, a number, or NaN (a missing or coerced-away value)
Str(x) == [t |-> "str", s |-> x, n |-> 0]
Num(k) == [t |-> "num", s |-> "", n |-> k]
NaN == [t |-> "nan", s |-> "", n |-> 0]

Row(st, di, cr, pr, yr) ==
  [c \in {"State_Name", "District_Name", "Crop", "Production", "Year"} |->
     CASE c = "State_Name" -> Str(st)
       [] c = "District_Name" -> Str(di)
       [] c = "Crop" -> Str(cr)
       [] c = "Production" -> pr
       [] c = "Year" -> yr]

DistrictTable ==
  [columns |-> <<"State_Name", "District_Name", "Crop", "Production", "Year">>,
   rows |-> << Row("Punjab", "Ludhiana", "Wheat", Num(100), Num(2019)),
               Row("Punjab", "Amritsar", "Wheat", Num(120), Num(2020)),
               Row("Karnataka", "Mysuru", "Rice", Str("n/a"), Num(2020)) >>]

NoYearTable ==
  [columns |-> <<"state", "district", "crop", "production">>,
   rows |-> << [c \in {"state", "district", "crop", "production"} |->
                  CASE c = "state" -> Str("Punjab")
                    [] c = "district" -> Str("Ludhiana")
                    [] c = "crop" -> Str("Wheat")
                    [] c = "production" -> Num(70)] >>]

RainRow(sub, yr, ann) ==
  [c \in {"SUBDIVISION", "YEAR", "ANNUAL"} |->
     CASE c = "SUBDIVISION" -> Str(sub) [] c = "YEAR" -> yr [] c = "ANNUAL" -> ann]

RainTable ==
  [columns |-> <<"SUBDIVISION", "YEAR", "ANNUAL">>,
   rows |-> << RainRow("Punjab", Num(2019), Num(600)),
               RainRow("Punjab", Num(2020), Num(700)),
               RainRow("KARNATAKA", Num(2020), Num(1100)) >>]

JunkTable ==
  [columns |-> <<"id", "value">>,
   rows |-> << [c \in {"id", "value"} |-> Str("x")] >>]

\* what a request for a resource id can be answered with: the dataset
\* meant, or some other dataset
NetTables(rid) ==
  IF rid = "rain_rid" THEN {RainTable, JunkTable} ELSE {DistrictTable, JunkTable}


(***************************************************************************)
(* Configuration (config.get_config()): the fields the engine reads.  An   *)
(* unset value is the empty string.                                        *)
(***************************************************************************)
Config(key, rain, crop, district) ==
  [data_gov_in_api_key |-> key, rainfall_resource_id |-> rain,
   crop_production_resource_id |-> crop, district_crop_production_resource_id |-> district]

Configs ==
  { Config("key", "rain_rid", "crop_rid", "dist_rid"),
    Config("", "rain_rid", "crop_rid", "dist_rid"),
    Config("key", "", "sample_agri_1", "") }

\* resource ids for which resource_id.startswith("sample_") holds
SamplePrefixed == {"sample_agri_1"}

VARIABLES
  cfg,         \* the configuration get_config() returns
  data_store,  \* the DataStore object shared by all requests
  response,    \* the last call of the planner or the executor and its outcome
  question,    \* the text last given to parse_query
  available,   \* the catalog last given to parse_query
  parsed,      \* what that parse_query call came to
  replanned,   \* the last planner call had the Intent of the call before it
  reparsed     \* the last parser call had the inputs of the call before it

vars == <<cfg, data_store, response, question, available, parsed, replanned, reparsed>>

(***************************************************************************)
(* DataStore                                                               *)
(***************************************************************************)
NewDataStore ==
  [agriculture_data |-> EmptyDict, climate_data |-> EmptyDict, metadata |-> EmptyDict]

add_dataset(st, category, name, df, md) ==
  [agriculture_data |-> IF category = "agriculture"
                          THEN Put(st.agriculture_data, name, df) ELSE st.agriculture_data,
   climate_data     |-> IF category # "agriculture" /\ category = "climate"
                          THEN Put(st.climate_data, name, df) ELSE st.climate_data,
   metadata         |-> Put(st.metadata, name, md)]

\* get_dataset: [found |-> FALSE] stands for the None it returns
get_dataset(st, name) ==
  IF name \in DOMAIN st.agriculture_data
    THEN [found |-> TRUE, df |-> st.agriculture_data[name]]
    ELSE IF name \in DOMAIN st.climate_data
      THEN [found |-> TRUE, df |-> st.climate_data[name]]
      ELSE [found |-> FALSE, df |-> EmptyDF]

(***************************************************************************)
(* DataFetcher.  An HTTP request either fails (raises) or answers with a   *)
(* JSON body; log lists the requests sent, in order.                       *)
(***************************************************************************)
Req(endpoint, rid) == [endpoint |-> endpoint, rid |-> rid]

\* GET https://api.data.gov.in/resource/<rid>, raise_for_status, records
DataGovInGet(c, rid) ==
  {[raised |-> TRUE, df |-> EmptyDF, log |-> <<Req("data.gov.in", rid)>>]}
  \cup {[raised |-> FALSE, df |-> t, log |-> <<Req("data.gov.in", rid)>>] :
          t \in NetTables(rid) \cup {EmptyDF}}

\* JSON bodies of the CKAN datastore_search endpoint
CkanBodies(rid) ==
  {[success |-> TRUE, result |-> t, has_records |-> FALSE, records |-> EmptyDF] :
     t \in NetTables(rid) \cup {EmptyDF}}
  \cup {[success |-> FALSE, result |-> EmptyDF, has_records |-> TRUE, records |-> t] :
     t \in NetTables(rid)}
  \cup {[success |-> FALSE, result |-> EmptyDF, has_records |-> FALSE, records |-> EmptyDF]}

_fetch_from_ckan_datastore(c, rid) ==
  LET sent == <<Req("ckan", rid)>>
  IN  {[raised |-> FALSE,
        df |-> IF b.success /\ Len(b.result.rows) > 0 THEN b.result
               ELSE IF b.has_records THEN b.records ELSE EmptyDF,
        log |-> sent] : b \in CkanBodies(rid)}
      \cup {[raised |-> r.raised, df |-> r.df, log |-> sent \o r.log] :
              r \in DataGovInGet(c, rid)}

fetch_dataset(c, rid, use_ckan) ==
  IF rid \in SamplePrefixed
    THEN {[raised |-> FALSE, df |-> EmptyDF, log |-> <<>>]}
    ELSE IF c.data_gov_in_api_key = "" \/ c.data_gov_in_api_key = "YOUR_KEY_HERE"
      THEN {[raised |-> TRUE, df |-> EmptyDF, log |-> <<>>]}
      ELSE IF use_ckan THEN _fetch_from_ckan_datastore(c, rid)
           ELSE DataGovInGet(c, rid)

(***************************************************************************)
(* QueryExecutor: table loading                                            *)
(***************************************************************************)
DistrictName == "crop_production_district_season"
MajorCropsName == "crop_production_major_crops"

_load_crop_production(c) == fetch_dataset(c, c.crop_production_resource_id, FALSE)

_load_rainfall(c) ==
  IF c.rainfall_resource_id = ""
    THEN {[raised |-> FALSE, df |-> EmptyDF, log |-> <<>>]}
    ELSE fetch_dataset(c, c.rainfall_resource_id, FALSE)

\* a validator that takes any table with rows and columns
validate_not_empty(df) == ~IsEmpty(df)

_validate_crop_production_schema(df) ==
  IF IsEmpty(df) THEN FALSE
  ELSE
    /\ find_col(df, <<"State_Name", "STATE", "State", "STATE/UT", "STATE_UT_NAME",
                      "State Name", "state">>) # None
    /\ find_col(df, <<"District_Name", "District", "DISTRICT", "District Name",
                      "district">>) # None
    /\ find_col(df, <<"Crop", "CROP", "Crop_Name", "Commodity", "CROP_NAME", "crop">>) # None
    /\ find_col(df, <<"Production", "PRODUCTION", "Prodn", "PROD", "production_tonnes",
                      "Prod", "production">>) # None

\* client.discover_district_crop_production_resource_id(): it raises, or
\* returns None or a resource id (possibly the configured one)
DiscoveryOutcomes(c) ==
  {[raised |-> TRUE, id |-> None], [raised |-> FALSE, id |-> None],
   [raised |-> FALSE, id |-> "disc_rid"], [raised |-> FALSE, id |-> "dist_rid"]}

DistrictMeta(rid) == [id |-> rid, name |-> "District-wise Season-wise Crop Production"]

\* a loop that stores what the first CKAN retrieval returns, unvalidated
TryResourceIdsUnchecked(c, st, ids, i, log) ==
  IF i > Len(ids)
    THEN {[df |-> EmptyDF, store |-> st, log |-> log]}
    ELSE {[df |-> k.df,
           store |-> add_dataset(st, "agriculture", DistrictName, k.df,
                                 DistrictMeta(ids[i])),
           log |-> log \o k.log] : k \in fetch_dataset(c, ids[i], TRUE)}

\* the loop over resource_ids_to_try
RECURSIVE TryResourceIds(_, _, _, _, _)
TryResourceIds(c, st, ids, i, log) ==
  IF i > Len(ids)
    THEN {[df |-> EmptyDF, store |-> st, log |-> log]}
    ELSE UNION {
      IF ~k.raised /\ _validate_crop_production_schema(k.df)
        THEN {[df |-> k.df,
               store |-> add_dataset(st, "agriculture", DistrictName, k.df,
                                     DistrictMeta(ids[i])),
               log |-> log \o k.log]}
        ELSE UNION {
          IF ~g.raised /\ _validate_crop_production_schema(g.df)
            THEN {[df |-> g.df,
                   store |-> add_dataset(st, "agriculture", DistrictName, g.df,
                                         DistrictMeta(ids[i])),
                   log |-> log \o k.log \o g.log]}
            ELSE TryResourceIds(c, st, ids, i + 1, log \o k.log \o g.log)
          : g \in fetch_dataset(c, ids[i], FALSE)}
      : k \in fetch_dataset(c, ids[i], TRUE)}

\* a chain that does not look into the store
_load_district_refetching(c, st) ==
  UNION {
    LET configured == IF c.district_crop_production_resource_id # ""
                        THEN <<c.district_crop_production_resource_id>> ELSE <<>>
        ids == IF ~d.raised /\ d.id # None /\ d.id \notin Range(configured)
                 THEN Append(configured, d.id) ELSE configured
    IN  TryResourceIds(c, st, ids, 1, <<>>)
    : d \in DiscoveryOutcomes(c)}

_load_district_crop_production(c, st) ==
  LET cached == get_dataset(st, DistrictName)
  IN  IF cached.found /\ ~IsEmpty(cached.df) /\ _validate_crop_production_schema(cached.df)
        THEN {[df |-> cached.df, store |-> st, log |-> <<>>]}
        ELSE UNION {
          LET configured == IF c.district_crop_production_resource_id # ""
                              THEN <<c.district_crop_production_resource_id>> ELSE <<>>
              ids == IF ~d.raised /\ d.id # None /\ d.id \notin Range(configured)
                       THEN Append(configured, d.id) ELSE configured
          IN  TryResourceIds(c, st, ids, 1, <<>>)
          : d \in DiscoveryOutcomes(c)}

(***************************************************************************)
(* Text matching: Series.str.contains(needle, case=False) on the texts the *)
(* model uses, computed on their characters.                               *)
(***************************************************************************)
Chars ==
  [s \in {"", "x", "n/a", "nan", "the", "punjab", "karnataka", "karnatak", "wheat",
          "rice", "ludhiana", "amritsar", "mysuru", "goa"} |->
     CASE s = "" -> <<>>
       [] s = "x" -> <<"x">>
       [] s = "n/a" -> <<"n", "/", "a">>
       [] s = "nan" -> <<"n", "a", "n">>
       [] s = "the" -> <<"t", "h", "e">>
       [] s = "punjab" -> <<"p", "u", "n", "j", "a", "b">>
       [] s = "karnataka" -> <<"k", "a", "r", "n", "a", "t", "a", "k", "a">>
       [] s = "karnatak" -> <<"k", "a", "r", "n", "a", "t", "a", "k">>
       [] s = "wheat" -> <<"w", "h", "e", "a", "t">>
       [] s = "rice" -> <<"r", "i", "c", "e">>
       [] s = "ludhiana" -> <<"l", "u", "d", "h", "i", "a", "n", "a">>
       [] s = "amritsar" -> <<"a", "m", "r", "i", "t", "s", "a", "r">>
       [] s = "mysuru" -> <<"m", "y", "s", "u", "r", "u">>
       [] s = "goa" -> <<"g", "o", "a">>]

\* needle occurs in hay, ignoring case
ContainsCI(hay, needle) ==
  LET a == Chars[Lower(needle)]
      b == Chars[Lower(hay)]
  IN  \E k \in 0..(Len(b) - Len(a)) : \A i \in 1..Len(a) : b[k + i] = a[i]

\* astype(str) of a cell (the digits of a number are not text the model matches)
CellText(cell) == IF cell.t = "str" THEN cell.s ELSE IF cell.t = "nan" THEN "nan" ELSE "x"

\* pd.to_numeric(errors="coerce") of a cell
ToNumeric(cell) == IF cell.t = "num" THEN cell ELSE NaN

\* df[col] = pd.to_numeric(df[col], errors="coerce")
CoerceCol(df, col) ==
  [df EXCEPT !.rows = [i \in DOMAIN df.rows |->
                         [df.rows[i] EXCEPT ![col] = ToNumeric(df.rows[i][col])]]]

Filter(rows, Test(_)) == SelectSeq(rows, Test)

(***************************************************************************)
(* Sorting and grouping                                                    *)
(***************************************************************************)
Min(S) == CHOOSE x \in S : \A y \in S : x <= y
Max(S) == CHOOSE x \in S : \A y \in S : y <= x

\* sorted(S) for a set of numbers
RECURSIVE Sorted(_)
Sorted(S) == IF S = {} THEN <<>> ELSE <<Min(S)>> \o Sorted(S \ {Min(S)})

\* lst[-k:]
Tail_k(lst, k) ==
  IF k = 0 \/ k >= Len(lst) THEN lst ELSE SubSeq(lst, Len(lst) - k + 1, Len(lst))

\* lst[:k]   (DataFrame.head(k))
Head_k(lst, k) == IF k >= Len(lst) THEN lst ELSE SubSeq(lst, 1, k)

\* sorted(df[col].dropna().unique()) of a numeric column
YearsOf(rows, col) == Sorted({rows[i][col].n : i \in {j \in DOMAIN rows : rows[j][col].t = "num"}})

\* comparison of the texts that occur as group keys: TextOrder lists them
\* in ascending string order (upper case sorts before lower case)
TextOrder == <<"Amritsar", "Ludhiana", "Mysuru", "Rice", "Wheat", "n/a", "nan", "x">>
Rank(t) == CHOOSE i \in DOMAIN TextOrder : TextOrder[i] = t

RECURSIVE SortedTexts(_)
SortedTexts(S) ==
  IF S = {} THEN <<>>
  ELSE LET m == CHOOSE x \in S : \A y \in S : Rank(x) <= Rank(y)
       IN  <<m>> \o SortedTexts(S \ {m})

\* the group keys of groupby(col): the distinct non-null values, sorted
GroupKeys(rows, col) ==
  SortedTexts({CellText(rows[i][col]) : i \in {j \in DOMAIN rows : rows[j][col].t # "nan"}})

\* Series.unique(): the distinct texts of a column in order of first appearance
RECURSIVE Distinct(_, _, _)
Distinct(rows, col, i) ==
  IF i > Len(rows) THEN <<>>
  ELSE LET rest == Distinct(rows, col, i + 1)
           v == CellText(rows[i][col])
       IN  <<v>> \o SelectSeq(rest, LAMBDA w : w # v)

RECURSIVE Flatten(_, _)
Flatten(ss, i) == IF i > Len(ss) THEN <<>> ELSE ss[i] \o Flatten(ss, i + 1)

\* Series.sum() of a numeric column over rows: NaN is skipped
RECURSIVE SumCol(_, _, _)
SumCol(rows, col, i) ==
  IF i > Len(rows) THEN 0
  ELSE (IF rows[i][col].t = "num" THEN rows[i][col].n ELSE 0) + SumCol(rows, col, i + 1)

CountNum(rows, col) == Cardinality({i \in DOMAIN rows : rows[i][col].t = "num"})

\* groupby(key, as_index=False)[val].sum(): one record per key
GroupSum(rows, key, val) ==
  LET keys == GroupKeys(rows, key)
  IN  [i \in DOMAIN keys |->
         [key |-> keys[i],
          sum |-> SumCol(Filter(rows, LAMBDA r : r[key].t # "nan" /\ CellText(r[key]) = keys[i]),
                         val, 1)]]

\* sort_values(val, ascending): the groups by their sum, groups of equal sum
\* keeping the grouped order
RECURSIVE SortBySum(_, _)
SortBySum(recs, ascending) ==
  IF Len(recs) = 0 THEN <<>>
  ELSE LET best == CHOOSE i \in DOMAIN recs :
                     \A j \in DOMAIN recs :
                       \/ (IF ascending THEN recs[i].sum < recs[j].sum
                                        ELSE recs[i].sum > recs[j].sum)
                       \/ (recs[i].sum = recs[j].sum /\ i <= j)
           rest == [k \in 1..(Len(recs) - 1) |-> IF k < best THEN recs[k] ELSE recs[k + 1]]
       IN  <<recs[best]>> \o SortBySum(rest, ascending)

(***************************************************************************)
(* QueryExecutor: the six computations.  Each returns the set of possible  *)
(* outcomes [raised, payload, store].                                 *)
(***************************************************************************)
Returned(payload, st) == [raised |-> FALSE, payload |-> payload, store |-> st]
Raised(st) == [raised |-> TRUE, payload |-> EmptyDict, store |-> st]

\* the mean of a numeric column: None for no rows, NaN for no numbers
Mean(rows, col) ==
  IF Len(rows) = 0 THEN [kind |-> "None", sum |-> 0, count |-> 0]
  ELSE IF CountNum(rows, col) = 0 THEN [kind |-> "nan", sum |-> 0, count |-> 0]
  ELSE [kind |-> "float", sum |-> SumCol(rows, col, 1), count |-> CountNum(rows, col)]

RainfallOn(df0, state1, state2, years) ==
  LET sc == find_col(df0, <<"STATE", "STATE_UT_NAME", "SUBDIVISION", "State", "STATE/UT",
                            "subdivision">>)
      yc == find_col(df0, <<"YEAR", "Year", "year", "Year", "YEAR">>)
      ac == find_col(df0, <<"ANNUAL", "Annual", "ANN", "Rainfall", "annual">>)
  IN  IF sc = None \/ yc = None \/ ac = None
        THEN [error |-> "Rainfall dataset has unexpected schema", columns |-> df0.columns]
        ELSE
          LET df == CoerceCol(CoerceCol(df0, yc), ac)
              recent_years == Tail_k(YearsOf(df.rows, yc), years)
              sub == Filter(df.rows, LAMBDA r : r[yc].t = "num" /\ r[yc].n \in Range(recent_years))
          IN  [s \in {state1, state2} |->
                 LET s_sub == Filter(sub, LAMBDA r : r[sc].t = "str" /\ ContainsCI(r[sc].s, s))
                 IN  [years |-> recent_years, avg_annual_mm |-> Mean(s_sub, ac)]]

_compute_rainfall_compare(c, st, state1, state2, years) ==
  {IF l.raised THEN Raised(st)
   ELSE IF IsEmpty(l.df) THEN Returned([note |-> "No rainfall dataset configured"], st)
   ELSE Returned(RainfallOn(l.df, state1, state2, years), st)
   : l \in _load_rainfall(c)}

TopCropsOn(df0, state1, state2, top_m, crop_type) ==
  LET state_col == find_col(df0, <<"State_Name", "STATE", "State", "STATE/UT", "STATE_UT_NAME",
                                   "State Name">>)
      crop_col == find_col(df0, <<"Crop", "CROP", "Crop_Name", "Commodity", "CROP_NAME">>)
      found == find_col(df0, <<"Production", "PRODUCTION", "Prodn", "PROD",
                               "production_tonnes">>)
      prod_col == IF found # None THEN found ELSE "Production"
  IN  IF state_col = None \/ crop_col = None \/ ~HasCol(df0, prod_col)
        THEN [error |-> "Crop dataset schema unexpected", columns |-> df0.columns]
        ELSE
          LET df == CoerceCol(df0, prod_col)
          IN  [s \in {state1, state2} |->
                 LET in_state == Filter(df.rows,
                                        LAMBDA r : ContainsCI(CellText(r[state_col]), s))
                     s_df == IF crop_type # ""
                               THEN Filter(in_state,
                                           LAMBDA r : ContainsCI(CellText(r[crop_col]), crop_type))
                               ELSE in_state
                 IN  Head_k(SortBySum(GroupSum(s_df, crop_col, prod_col), FALSE), top_m)]

_compute_top_crops(c, st, state1, state2, top_m, crop_type) ==
  {IF l.raised THEN Raised(st)
   ELSE IF IsEmpty(l.df) THEN Returned([note |-> "Crop production dataset empty"], st)
   ELSE Returned(TopCropsOn(l.df, state1, state2, top_m, crop_type), st)
   : l \in _load_crop_production(c)}

\* an in-place assignment to a frame that came from the store changes the
\* stored frame: the entry get_dataset(name) returns becomes df
\* a variant in which the frame a computation worked on is left without
\* rows
WriteBackEmptied(st, name, df) ==
  IF name \in DOMAIN st.agriculture_data
    THEN [st EXCEPT !.agriculture_data = Put(st.agriculture_data, name, EmptyDF)]
    ELSE IF name \in DOMAIN st.climate_data
      THEN [st EXCEPT !.climate_data = Put(st.climate_data, name, EmptyDF)]
      ELSE st

WriteBack(st, name, df) ==
  IF name \in DOMAIN st.agriculture_data
    THEN [st EXCEPT !.agriculture_data = Put(st.agriculture_data, name, df)]
    ELSE IF name \in DOMAIN st.climate_data
      THEN [st EXCEPT !.climate_data = Put(st.climate_data, name, df)]
      ELSE st

ResourceIdText(c) ==
  IF c.district_crop_production_resource_id # ""
    THEN c.district_crop_production_resource_id ELSE "not configured"

DistrictUnavailable(c) ==
  [error |-> "District crop production dataset not available. Resource ID: ",
   resource_id |-> ResourceIdText(c),
   hint |-> "The district crop production resource ID may be incorrect or the dataset may not be accessible."]

\* the five district roles as the district computations resolve them
DistrictCols(df) ==
  [state |-> find_col(df, <<"State_Name", "STATE", "State", "STATE/UT", "STATE_UT_NAME",
                            "State Name">>),
   district |-> find_col(df, <<"District_Name", "District", "DISTRICT", "District Name">>),
   crop |-> find_col(df, <<"Crop", "CROP", "Crop_Name", "Commodity", "CROP_NAME">>),
   production |-> find_col(df, <<"Production", "PRODUCTION", "Prodn", "PROD",
                                 "production_tonnes", "Prod">>),
   year |-> find_col(df, <<"Year", "YEAR", "year">>)]

AllFound(cols) == \A k \in DOMAIN cols : cols[k] # None

\* a variant that takes the most recent year of the whole table for both
\* halves
extrema_for_table_year(df, cols, state, crop, mode) ==
  LET sub == Filter(df.rows, LAMBDA r : /\ ContainsCI(CellText(r[cols.state]), state)
                                        /\ ContainsCI(CellText(r[cols.crop]), crop))
      years == YearsOf(df.rows, cols.year)
      recent == years[Len(years)]
      sub_recent == Filter(sub, LAMBDA r : r[cols.year].t = "num" /\ r[cols.year].n = recent)
      grouped == SortBySum(GroupSum(sub_recent, cols.district, cols.production),
                           mode = "min")
  IN  IF Len(years) = 0 \/ Len(sub_recent) = 0 THEN [none |-> TRUE]
      ELSE [none |-> FALSE, state |-> state, crop |-> crop, district |-> grouped[1].key,
            year |-> recent, production |-> grouped[1].sum]

extrema_for(df, cols, state, crop, mode) ==
  LET sub == Filter(df.rows, LAMBDA r : /\ ContainsCI(CellText(r[cols.state]), state)
                                        /\ ContainsCI(CellText(r[cols.crop]), crop))
      years == YearsOf(sub, cols.year)
  IN  IF Len(sub) = 0 \/ Len(years) = 0 THEN [none |-> TRUE]
      ELSE
        LET recent == years[Len(years)]
            sub_recent == Filter(sub, LAMBDA r : r[cols.year].t = "num" /\ r[cols.year].n = recent)
            grouped == SortBySum(GroupSum(sub_recent, cols.district, cols.production),
                                 mode = "min")
        IN  [none |-> FALSE, state |-> state, crop |-> crop, district |-> grouped[1].key,
             year |-> recent, production |-> grouped[1].sum]

_compute_district_crop_extrema(c, st, state_max, crop_max, state_min, crop_min) ==
  {IF IsEmpty(l.df) THEN Returned(DistrictUnavailable(c), l.store)
   ELSE
     LET cols == DistrictCols(l.df)
     IN  IF ~AllFound(cols)
           THEN Returned([error |-> "District dataset schema unexpected",
                          columns |-> l.df.columns], l.store)
           ELSE
             LET df == CoerceCol(CoerceCol(l.df, cols.production), cols.year)
             IN  Returned([max |-> extrema_for(df, cols, state_max, crop_max, "max"),
                           min |-> extrema_for(df, cols, state_min, crop_min, "min")],
                          WriteBack(l.store, DistrictName, df))
   : l \in _load_district_crop_production(c, st)}

\* the year-by-year breakdown: one record per district and year, sorted by
\* district and year
DistrictByYear(filtered, cols) ==
  LET districts == GroupKeys(filtered, cols.district)
      OfDistrict(d) == Filter(filtered, LAMBDA r : CellText(r[cols.district]) = d)
      OfYear(rows, y) == Filter(rows, LAMBDA r : r[cols.year].n = y)
      Years(d) == YearsOf(OfDistrict(d), cols.year)
  IN  Flatten([i \in DOMAIN districts |->
                 [j \in DOMAIN Years(districts[i]) |->
                    [key |-> districts[i], year |-> Years(districts[i])[j],
                     sum |-> SumCol(OfYear(OfDistrict(districts[i]), Years(districts[i])[j]),
                                    cols.production, 1)]]], 1)

\* the payload computed on the district table df, its columns coerced
DistrictComparisonOn(df, cols, state, crop, years) ==
  LET all_years == YearsOf(df.rows, cols.year)
      recent_years == IF Len(all_years) >= years THEN Tail_k(all_years, years)
                      ELSE all_years
      filtered == Filter(df.rows,
                    LAMBDA r : /\ ContainsCI(CellText(r[cols.state]), state)
                               /\ ContainsCI(CellText(r[cols.crop]), crop)
                               /\ r[cols.year].t = "num"
                               /\ r[cols.year].n \in Range(recent_years))
  IN  IF Len(filtered) = 0
        THEN [error |-> "No data found for ", state |-> state, crop |-> crop,
              years |-> years]
        ELSE [state |-> state, crop |-> crop, years |-> years,
              year_range |-> recent_years,
              districts |-> SortBySum(GroupSum(filtered, cols.district, cols.production),
                                      FALSE),
              district_by_year |-> DistrictByYear(filtered, cols)]

\* the district table with its production and year columns coerced
CoercedDistrict(df, cols) == CoerceCol(CoerceCol(df, cols.production), cols.year)

_compute_district_crop_comparison(c, st, state, crop, years) ==
  {IF IsEmpty(l.df) THEN Returned(DistrictUnavailable(c), l.store)
   ELSE IF ~AllFound(DistrictCols(l.df))
     THEN Returned([error |-> "District dataset schema unexpected",
                    columns |-> l.df.columns], l.store)
   ELSE Returned(DistrictComparisonOn(CoercedDistrict(l.df, DistrictCols(l.df)),
                                      DistrictCols(l.df), state, crop, years),
                 WriteBack(l.store, DistrictName,
                           CoercedDistrict(l.df, DistrictCols(l.df))))
   : l \in _load_district_crop_production(c, st)}

PyNone == [py_none |-> TRUE]

\* the first run of four digits of a text such as "2014-15"
YearOfText(t) ==
  CASE t = "2014-15" -> 2014 [] t = "2015-16" -> 2015 [] OTHER -> -1

\* the year the wide-format branch reads from a cell; -1 when it reads none
extract_year(cell) ==
  IF cell.t = "num" THEN cell.n ELSE IF cell.t = "str" THEN YearOfText(cell.s) ELSE -1

\* sorted(lst) of a list of numbers, duplicates kept
RECURSIVE SortedList(_)
SortedList(lst) ==
  IF Len(lst) = 0 THEN <<>>
  ELSE LET m == CHOOSE i \in DOMAIN lst : \A j \in DOMAIN lst : lst[i] <= lst[j]
       IN  <<lst[m]>> \o SortedList([k \in 1..(Len(lst) - 1) |->
                                       IF k < m THEN lst[k] ELSE lst[k + 1]])

\* the distinct non-null cells of a column, in order of first appearance
RECURSIVE UniqueCells(_, _, _)
UniqueCells(rows, col, i) ==
  IF i > Len(rows) THEN <<>>
  ELSE LET rest == UniqueCells(rows, col, i + 1)
       IN  IF rows[i][col].t = "nan" THEN rest
           ELSE <<rows[i][col]>> \o SelectSeq(rest, LAMBDA w : w # rows[i][col])

\* is_numeric_dtype of a column: no text in it
NumericDtype(rows, col) == \A i \in DOMAIN rows : rows[i][col].t # "str"

TopCropsStateLong(df0, state, top_n, years, state_col, crop_col, prod_col, year_col) ==
  LET df == CoerceCol(CoerceCol(df0, prod_col), year_col)
      in_state == Filter(df.rows, LAMBDA r : ContainsCI(CellText(r[state_col]), state))
      all_years == YearsOf(in_state, year_col)
      recent_years == IF Len(all_years) >= years THEN Tail_k(all_years, years) ELSE all_years
      in_years == Filter(in_state, LAMBDA r : r[year_col].t = "num"
                                              /\ r[year_col].n \in Range(recent_years))
      filtered == Filter(in_years, LAMBDA r : /\ r[crop_col].t # "nan"
                                              /\ r[prod_col].t # "nan"
                                              /\ CellText(r[crop_col]) # "")
      top == Head_k(SortBySum(GroupSum(filtered, crop_col, prod_col), FALSE), top_n)
      result == [state |-> state, top_n |-> top_n, years |-> years, crops |-> top,
                 year_range |-> recent_years]
      debug_info == [total_rows_after_filter |-> Len(filtered),
                     unique_crops_found |-> Len(GroupKeys(filtered, crop_col)),
                     crops_returned |-> Len(top),
                     sample_crops |-> Distinct(filtered, crop_col, 1),
                     sample_data |-> [i \in DOMAIN filtered |->
                                        [crop |-> filtered[i][crop_col],
                                         production |-> filtered[i][prod_col],
                                         year |-> filtered[i][year_col]]]]
  IN  [df |-> df,
       payload |->
         IF Len(in_state) = 0
           THEN [error |-> "No data found for ", state |-> state,
                 debug |-> [total_rows |-> Len(df.rows),
                            sample_state_values |->
                              Head_k(Distinct(df.rows, state_col, 1), 5)]]
         ELSE IF Len(in_years) = 0
           THEN [error |-> "No data found for  in recent  years", state |-> state,
                 debug |-> [available_years |-> all_years,
                            requested_years |-> recent_years]]
         ELSE IF Len(filtered) = 0
           THEN [error |-> "No valid crop data found for  in recent  years", state |-> state]
         ELSE IF Len(top) < top_n
           THEN [state |-> state, top_n |-> top_n, years |-> years, crops |-> top,
                 year_range |-> recent_years, debug_info |-> debug_info]
           ELSE result]

TopCropsStateWide(df0, state, top_n, years, state_col) ==
  LET rows0 == IF state_col # None
                 THEN Filter(df0.rows, LAMBDA r : ContainsCI(CellText(r[state_col]), state))
                 ELSE df0.rows
      year_col == IF HasCol(df0, "_year") THEN "_year"
                  ELSE find_col(df0, <<"_year", "Year", "YEAR", "year">>)
  IN  IF state_col # None /\ Len(rows0) = 0
        THEN [error |-> "No data found for  in wide format dataset", state |-> state]
      ELSE IF ~HasCol(df0, "_year") THEN PyNone
      ELSE
        LET years_raw == UniqueCells(rows0, year_col, 1)
            parsed_years == [i \in DOMAIN years_raw |-> extract_year(years_raw[i])]
            years_numeric == SelectSeq(parsed_years, LAMBDA y : y # -1)
            recent_years == Tail_k(SortedList(years_numeric), years)
            df_recent == Filter(rows0, LAMBDA r : extract_year(r[year_col]) \in Range(recent_years))
            crop_idx == {i \in DOMAIN df0.columns :
                           /\ df0.columns[i] # year_col
                           /\ df0.columns[i] # state_col
                           /\ NumericDtype(df0.rows, df0.columns[i])}
            crop_cols == SortedTexts({df0.columns[i] : i \in crop_idx})
            totals == [i \in DOMAIN crop_cols |->
                         [key |-> crop_cols[i], sum |-> SumCol(df_recent, crop_cols[i], 1)]]
        IN  IF Len(years_numeric) = 0
              THEN [error |-> "Could not parse years from dataset", year_column |-> year_col,
                    sample_values |-> Head_k(years_raw, 5)]
            ELSE IF crop_idx = {}
              THEN [error |-> "No crop production columns found in wide format dataset",
                    columns |-> df0.columns]
            ELSE [state |-> state, top_n |-> top_n, years |-> years,
                  crops |-> Head_k(SortBySum(totals, FALSE), top_n),
                  year_range |-> recent_years]

\* the table _compute_top_crops_state works on: the cached district table,
\* else the cached major-crops table, else a direct fetch; from names the
\* store entry the frame is (None for a fetched frame)
TopCropsStateTable(c, st) ==
  LET d == get_dataset(st, DistrictName)
      m == get_dataset(st, MajorCropsName)
  IN  IF d.found /\ ~IsEmpty(d.df)
        THEN {[raised |-> FALSE, df |-> d.df, from |-> DistrictName]}
        ELSE IF m.found /\ ~IsEmpty(m.df)
          THEN {[raised |-> FALSE, df |-> m.df, from |-> MajorCropsName]}
          ELSE {[raised |-> l.raised, df |-> l.df, from |-> None] :
                  l \in _load_crop_production(c)}

_compute_top_crops_state(c, st, state, top_n, years) ==
  {IF l.raised THEN Raised(st)
   ELSE IF IsEmpty(l.df)
     THEN Returned([error |-> "Crop production dataset empty", state |-> state], st)
   ELSE
     LET state_col == find_col(l.df, <<"State_Name", "STATE", "State", "STATE/UT",
                                       "STATE_UT_NAME", "State Name">>)
         crop_col == find_col(l.df, <<"Crop", "CROP", "Crop_Name", "Commodity", "CROP_NAME">>)
         found == find_col(l.df, <<"Production", "PRODUCTION", "Prodn", "PROD",
                                   "production_tonnes">>)
         prod_col == IF found # None THEN found ELSE "Production"
         year_col == find_col(l.df, <<"Year", "YEAR", "year", "_year">>)
     IN  IF state_col # None /\ crop_col # None /\ year_col # None
           THEN IF ~HasCol(l.df, prod_col)
                  THEN Raised(st)
                  ELSE LET r == TopCropsStateLong(l.df, state, top_n, years, state_col,
                                                  crop_col, prod_col, year_col)
                       IN  Returned(r.payload,
                                    IF l.from = None THEN st ELSE WriteBack(st, l.from, r.df))
         ELSE IF state_col # None /\ crop_col # None
           THEN Returned([error |-> "Could not process dataset for . Dataset format may be unexpected.",
                          state |-> state, available_columns |-> l.df.columns,
                          found_columns |-> [state |-> state_col, crop |-> crop_col,
                                             production |-> prod_col, year |-> None]],
                         st)
         ELSE Returned(TopCropsStateWide(l.df, state, top_n, years, state_col), st)
   : l \in TopCropsStateTable(c, st)}

\* _try_state_level_fallback: found = FALSE stands for the None it returns
StateLevelTable(c, st) ==
  LET m == get_dataset(st, MajorCropsName)
  IN  IF m.found /\ ~IsEmpty(m.df)
        THEN {[raised |-> FALSE, df |-> m.df, from |-> MajorCropsName]}
        ELSE {[raised |-> l.raised, df |-> l.df, from |-> None] :
                l \in _load_crop_production(c)}

NoFallback(st) == [found |-> FALSE, result |-> EmptyDict, store |-> st]

_try_state_level_fallback(c, st, state, crop, year) ==
  {IF l.raised \/ IsEmpty(l.df) THEN NoFallback(st)
   ELSE
     LET state_col == find_col(l.df, <<"State_Name", "STATE", "State", "STATE/UT",
                                       "STATE_UT_NAME", "State Name">>)
         crop_col == find_col(l.df, <<"Crop", "CROP", "Crop_Name", "Commodity", "CROP_NAME">>)
         prod_col == find_col(l.df, <<"Production", "PRODUCTION", "Prodn", "PROD",
                                      "production_tonnes">>)
         year_col == find_col(l.df, <<"Year", "YEAR", "year">>)
     IN  IF state_col = None \/ crop_col = None \/ prod_col = None
           THEN NoFallback(st)
           ELSE
             LET by_name == Filter(l.df.rows,
                              LAMBDA r : /\ ContainsCI(CellText(r[state_col]), state)
                                         /\ ContainsCI(CellText(r[crop_col]), crop))
                 use_year == year_col # None /\ year # 0
                 df1 == IF use_year THEN CoerceCol(l.df, year_col) ELSE l.df
                 filtered == IF use_year
                               THEN Filter(by_name, LAMBDA r : r[year_col].t = "num"
                                                               /\ r[year_col].n = year)
                               ELSE by_name
                 df2 == CoerceCol(df1, prod_col)
                 stored(df) == IF l.from = None THEN st ELSE WriteBack(st, l.from, df)
             IN  IF Len(filtered) = 0 THEN NoFallback(stored(df1))
                 ELSE IF \E i \in DOMAIN filtered : filtered[i][prod_col].t = "str"
                   THEN NoFallback(stored(df2))
                   ELSE [found |-> TRUE,
                         result |-> [state |-> state, crop |-> crop, year |-> year,
                                     total_production |-> SumCol(filtered, prod_col, 1),
                                     note |-> "State-level data (district-level not available)"],
                         store |-> stored(df2)]
   : l \in StateLevelTable(c, st)}

\* str.title() of the state names the model uses
Title(t) ==
  CASE t = "punjab" -> "Punjab" [] t = "karnataka" -> "Karnataka"
    [] t = "karnatak" -> "Karnatak" [] t = "goa" -> "Goa" [] t = "the" -> "The"
    [] OTHER -> t

DistrictHighestOn(df0, cols, state, crop, year) ==
  LET df == CoerceCol(CoerceCol(df0, cols.production), cols.year)
      filtered == Filter(df.rows, LAMBDA r : /\ ContainsCI(CellText(r[cols.state]), state)
                                             /\ ContainsCI(CellText(r[cols.crop]), crop)
                                             /\ r[cols.year].t = "num"
                                             /\ r[cols.year].n = year)
      grouped == GroupSum(filtered, cols.district, cols.production)
      \* idxmax: the first group that attains the maximum
      best == CHOOSE i \in DOMAIN grouped :
                /\ \A j \in DOMAIN grouped : grouped[j].sum <= grouped[i].sum
                /\ \A j \in 1..(i - 1) : grouped[j].sum < grouped[i].sum
  IN  [df |-> df,
       payload |->
         IF Len(filtered) = 0
           THEN [error |-> "No data found for , , year ", state |-> state, crop |-> crop,
                 year |-> year]
           ELSE [state |-> state, crop |-> crop, year |-> year,
                 district |-> grouped[best].key, production |-> grouped[best].sum]]

_compute_district_highest_crop_year(c, st, state, crop, year) ==
  UNION {
    IF IsEmpty(l.df)
      THEN {IF f.found
              THEN Returned(
                     [state |-> f.result.state, crop |-> f.result.crop, year |-> f.result.year,
                      total_production |-> f.result.total_production,
                      warning |-> "District-level data not available. Showing state-level summary instead.",
                      note |-> "For specific district information, please ensure DISTRICT_CROP_PRODUCTION_RESOURCE_ID is correctly configured.",
                      suggestion |-> "To get district-level data, try configuring a valid resource ID for district crop production."],
                     f.store)
              ELSE Returned(
                     [error |-> "District crop production dataset not available. Resource ID: ",
                      resource_id |-> ResourceIdText(c),
                      hint |-> "The district crop production resource ID may be incorrect or the dataset may not be accessible.",
                      required_columns |-> <<"State", "District", "Crop", "Production", "Year">>,
                      suggestion |-> Title(state),
                      alternative_queries |->
                        << [text |-> "List the top 10 crops produced in {state} during the last 5 years",
                            state |-> Title(state), crop |-> ""],
                           [text |-> "Compare {crop} production across all districts in {state} for the last 5 years",
                            state |-> Title(state), crop |-> crop] >>],
                     f.store)
            : f \in _try_state_level_fallback(c, l.store, state, crop, year)}
      ELSE
        LET cols == DistrictCols(l.df)
        IN  IF ~AllFound(cols)
              THEN {Returned(
                      [error |-> "District dataset schema unexpected - dataset does not contain required crop production columns",
                       columns |-> l.df.columns,
                       required_columns |-> [state |-> "State_Name/STATE/State",
                                             district |-> "District_Name/District/DISTRICT",
                                             crop |-> "Crop/CROP/Crop_Name",
                                             production |-> "Production/PRODUCTION/Prodn",
                                             year |-> "Year/YEAR/year"],
                       found_columns |-> cols],
                      l.store)}
              ELSE LET r == DistrictHighestOn(l.df, cols, state, crop, year)
                   IN  {Returned(r.payload, WriteBack(l.store, DistrictName, r.df))}
    : l \in _load_district_crop_production(c, st)}

(***************************************************************************)
(* QueryExecutor.execute.  A step of the list is any Python value: py is   *)
(* its type, str its text when it is a string, d its items when it is a    *)
(* dict.                                                                   *)
(***************************************************************************)
\* a step text that isinstance(step, str) does not hold of
StepStrNotStr(t) == [py |-> "bytes", str |-> t, d |-> EmptyDict]
StepStr(t) == [py |-> "str", str |-> t, d |-> EmptyDict]
StepDict(d) == [py |-> "dict", str |-> "", d |-> d]
StepInt == [py |-> "int", str |-> "", d |-> EmptyDict]

HasKeys(d, keys) == keys \subseteq DOMAIN d

\* the answer_data key of a recognized step type, None for any other type
ResultKey(type) ==
  CASE type = "compute_rainfall_compare" -> "rainfall_compare"
    [] type = "compute_top_crops" -> "top_crops"
    [] type = "compute_district_crop_extrema" -> "district_crop_extrema"
    [] type = "compute_top_crops_state" -> "top_crops_state"
    [] type = "compute_district_highest_crop_year" -> "district_highest_crop_year"
    [] type = "compute_district_crop_comparison" -> "district_crop_comparison"
    [] OTHER -> None

\* the fields of the step that the call of its computation reads
StepArgs(type) ==
  CASE type = "compute_rainfall_compare" -> {"state1", "state2", "years"}
    [] type = "compute_top_crops" -> {"state1", "state2", "top_m", "crop_type"}
    [] type = "compute_district_crop_extrema" -> {"state_max", "crop_max", "state_min", "crop_min"}
    [] type = "compute_top_crops_state" -> {"state", "top_n", "years"}
    [] type = "compute_district_highest_crop_year" -> {"state", "crop", "year"}
    [] type = "compute_district_crop_comparison" -> {"state", "crop", "years"}
    [] OTHER -> {}

\* the computation a recognized step runs
RunStep(c, st, d) ==
  CASE d.type = "compute_rainfall_compare" ->
         _compute_rainfall_compare(c, st, d.state1, d.state2, d.years)
    [] d.type = "compute_top_crops" ->
         _compute_top_crops(c, st, d.state1, d.state2, d.top_m, d.crop_type)
    [] d.type = "compute_district_crop_extrema" ->
         _compute_district_crop_extrema(c, st, d.state_max, d.crop_max, d.state_min, d.crop_min)
    [] d.type = "compute_top_crops_state" ->
         _compute_top_crops_state(c, st, d.state, d.top_n, d.years)
    [] d.type = "compute_district_highest_crop_year" ->
         _compute_district_highest_crop_year(c, st, d.state, d.crop, d.year)
    [] d.type = "compute_district_crop_comparison" ->
         _compute_district_crop_comparison(c, st, d.state, d.crop, d.years)

\* the for loop of execute from step i on: an exception of a step leaves
\* the loop and execute
RECURSIVE ExecuteFrom(_, _, _, _, _)
ExecuteFrom(c, st, steps, i, results) ==
  IF i > Len(steps)
    THEN {[raised |-> FALSE, answer_data |-> results, store |-> st]}
  ELSE IF steps[i].py = "str"
    THEN ExecuteFrom(c, st, steps, i + 1, results)
  ELSE IF steps[i].py # "dict"
    THEN {[raised |-> TRUE, answer_data |-> results, store |-> st]}
  ELSE
    LET d == steps[i].d
        type == Get(d, "type")
    IN  IF ResultKey(type) = None
          THEN ExecuteFrom(c, st, steps, i + 1, results)
        ELSE IF ~HasKeys(d, StepArgs(type))
          THEN {[raised |-> TRUE, answer_data |-> results, store |-> st]}
        ELSE UNION {
          IF r.raised
            THEN {[raised |-> TRUE, answer_data |-> results, store |-> r.store]}
            ELSE ExecuteFrom(c, r.store, steps, i + 1,
                             Put(results, ResultKey(type), r.payload))
          : r \in RunStep(c, st, d)}

\* an execute that records the steps it skips under a key of their own
execute_noting_skipped(c, st, plan) ==
  {[raised |-> o.raised, plan |-> plan,
    answer_data |-> IF \E i \in DOMAIN plan.steps :
                         plan.steps[i].py = "str" \/ ResultKey(Get(plan.steps[i].d, "type")) = None
                      THEN Put(o.answer_data, "skipped", PyNone) ELSE o.answer_data,
    store |-> o.store]
   : o \in ExecuteFrom(c, st, plan.steps, 1, EmptyDict)}
\* execute(plan): the possible outcomes; a returned outcome is the
\* response {"plan": plan, "answer_data": results}
execute(c, st, plan) ==
  {[raised |-> o.raised, plan |-> plan, answer_data |-> o.answer_data,
    store |-> o.store]
   : o \in ExecuteFrom(c, st, plan.steps, 1, EmptyDict)}

(***************************************************************************)
(* QueryPlanner.plan_and_execute: the plan it hands to the executor        *)
(***************************************************************************)
\* a planner that takes its last return for every Intent
PlanOfDefault(p) == [intent |-> Get(p, "intent"), steps |-> << StepStr("demo-step") >>]
PlanOf(p) ==
  LET intent == Get(p, "intent")
  IN  CASE intent = "rainfall_vs_top_crops" ->
             [intent |-> intent,
              steps |-> << StepDict([type |-> "compute_rainfall_compare",
                                     state1 |-> p.state1, state2 |-> p.state2,
                                     years |-> p.years]),
                           StepDict([type |-> "compute_top_crops",
                                     state1 |-> p.state1, state2 |-> p.state2,
                                     top_m |-> p.top_m, crop_type |-> p.crop_type]) >>]
        [] intent = "rainfall_compare" ->
             [intent |-> intent,
              steps |-> << StepDict([type |-> "compute_rainfall_compare",
                                     state1 |-> p.state1, state2 |-> p.state2,
                                     years |-> p.years]) >>]
        [] intent = "district_crop_extrema_compare" ->
             [intent |-> intent,
              steps |-> << StepDict([type |-> "compute_district_crop_extrema",
                                     state_max |-> p.state_max, crop_max |-> p.crop_max,
                                     state_min |-> p.state_min, crop_min |-> p.crop_min]) >>]
        [] intent = "top_crops_state" ->
             [intent |-> intent,
              steps |-> << StepDict([type |-> "compute_top_crops_state",
                                     state |-> p.state, top_n |-> p.top_n,
                                     years |-> p.years]) >>]
        [] intent = "district_highest_crop_year" ->
             [intent |-> intent,
              steps |-> << StepDict([type |-> "compute_district_highest_crop_year",
                                     state |-> p.state, crop |-> p.crop, year |-> p.year]) >>]
        [] intent = "district_crop_comparison" ->
             [intent |-> intent,
              steps |-> << StepDict([type |-> "compute_district_crop_comparison",
                                     state |-> p.state, crop |-> p.crop,
                                     years |-> p.years]) >>]
        [] OTHER -> [intent |-> intent, steps |-> << StepStr("demo-step") >>]

\* a planner that plans nothing once the store holds a dataset
plan_and_execute_by_store(c, st, p) ==
  execute(c, st, IF st = NewDataStore THEN PlanOf(p)
                 ELSE [intent |-> Get(p, "intent"), steps |-> <<>>])
plan_and_execute(c, st, p) == execute(c, st, PlanOf(p))

(***************************************************************************)
(* QueryParser.  A question is the sequence of its words, one blank        *)
(* between two words; a text taken from it (a matched group) is a          *)
(* sequence of words too, the empty sequence being the empty text.  A word *)
(* is made of letters only or of digits only.                              *)
(***************************************************************************)
\* the value of the words made of digits
NumVal ==
  [w \in {"0", "2", "3", "5", "2019", "2020"} |->
     CASE w = "0" -> 0 [] w = "2" -> 2 [] w = "3" -> 3 [] w = "5" -> 5
       [] w = "2019" -> 2019 [] w = "2020" -> 2020]

\* a number written with more digits than int() converts (5000 digits)
HugeNumber == "1111...1"

IsNum(w) == w \in (DOMAIN NumVal) \cup {HugeNumber}
IsAlpha(w) == ~IsNum(w)

\* \d{4}: a word of exactly four digits
IsFourDigits(w) == w \in {"2019", "2020"}

NoMatch == [ok |-> FALSE, g |-> EmptyDict]

(***************************************************************************)
(* re.search of a pattern that is a chain of elements separated by \s+ :   *)
(*   lit    a word, case ignored                                           *)
(*   opt    an optional word, taken when present       (?:word\s+)?        *)
(*   lazy   one or more words of letters, fewest first [A-Za-z\s_]+?       *)
(*   greedy one or more words of letters, most first   [A-Za-z\s_]+        *)
(*   word   one word of letters                        [A-Za-z]+           *)
(*   any    one or more words, fewest first            [^,\.]+?            *)
(*   num    a word of digits                           \d+                 *)
(*   year   a word of four digits                      \d{4}               *)
(*   gap    any words, fewest first                    .*?                 *)
(*   each   the words "in each", or else the end       (?:\s+in\s+each|$)  *)
(* The alternatives are tried in the order of the regular expression       *)
(* engine, and the first complete match is the result.                     *)
(***************************************************************************)
Lit(w) == [k |-> "lit", w |-> {w}, g |-> ""]
LitIn(ws) == [k |-> "lit", w |-> ws, g |-> ""]
Opt(w) == [k |-> "opt", w |-> {w}, g |-> ""]
Lazy(g) == [k |-> "lazy", w |-> {}, g |-> g]
Greedy(g) == [k |-> "greedy", w |-> {}, g |-> g]
Word(g) == [k |-> "word", w |-> {}, g |-> g]
AnyLazy(g) == [k |-> "any", w |-> {}, g |-> g]
NumG(g) == [k |-> "num", w |-> {}, g |-> g]
YearG(g) == [k |-> "year", w |-> {}, g |-> g]
Gap == [k |-> "gap", w |-> {}, g |-> ""]
EachOrEnd == [k |-> "each", w |-> {}, g |-> ""]

Lits(ws) == [i \in DOMAIN ws |-> Lit(ws[i])]

AllAlpha(q, from, to) == \A i \in from..to : IsAlpha(q[i])

RECURSIVE MatchAt(_, _, _, _, _)
RECURSIVE MatchRun(_, _, _, _, _, _, _)

\* the match of the elements pi.. of pat on the words ti.. of q
MatchAt(pat, pi, q, ti, g) ==
  IF pi > Len(pat) THEN [ok |-> TRUE, g |-> g]
  ELSE
    LET e == pat[pi]
    IN  CASE e.k = "lit" ->
               IF ti <= Len(q) /\ Lower(q[ti]) \in e.w
                 THEN MatchAt(pat, pi + 1, q, ti + 1, g) ELSE NoMatch
          [] e.k = "opt" ->
               LET with == IF ti <= Len(q) /\ Lower(q[ti]) \in e.w
                             THEN MatchAt(pat, pi + 1, q, ti + 1, g) ELSE NoMatch
               IN  IF with.ok THEN with ELSE MatchAt(pat, pi + 1, q, ti, g)
          [] e.k = "word" ->
               IF ti <= Len(q) /\ IsAlpha(q[ti])
                 THEN MatchAt(pat, pi + 1, q, ti + 1, Put(g, e.g, <<q[ti]>>)) ELSE NoMatch
          [] e.k = "num" ->
               IF ti <= Len(q) /\ IsNum(q[ti])
                 THEN MatchAt(pat, pi + 1, q, ti + 1, Put(g, e.g, <<q[ti]>>)) ELSE NoMatch
          [] e.k = "year" ->
               IF ti <= Len(q) /\ IsFourDigits(q[ti])
                 THEN MatchAt(pat, pi + 1, q, ti + 1, Put(g, e.g, <<q[ti]>>)) ELSE NoMatch
          [] e.k = "each" ->
               IF \/ ti > Len(q)
                  \/ (ti + 1 <= Len(q) /\ Lower(q[ti]) = "in" /\ Lower(q[ti + 1]) = "each")
                 THEN [ok |-> TRUE, g |-> g] ELSE NoMatch
          [] e.k = "lazy" -> MatchRun(pat, pi, q, ti, g, 1, 1)
          [] e.k = "any" -> MatchRun(pat, pi, q, ti, g, 1, 1)
          [] e.k = "gap" -> MatchRun(pat, pi, q, ti, g, 0, 1)
          [] e.k = "greedy" ->
               LET longest == CHOOSE n \in 0..(Len(q) - ti + 1) :
                                /\ AllAlpha(q, ti, ti + n - 1)
                                /\ (ti + n > Len(q) \/ ~IsAlpha(q[ti + n]))
               IN  MatchRun(pat, pi, q, ti, g, longest, -1)

\* element pi of pat takes n words, and then n + step words, and so on
MatchRun(pat, pi, q, ti, g, n, step) ==
  LET e == pat[pi]
      fits == /\ ti + n - 1 <= Len(q)
              /\ n >= (IF e.k = "gap" THEN 0 ELSE 1)
              /\ (e.k \in {"lazy", "greedy"} => AllAlpha(q, ti, ti + n - 1))
  IN  IF ~fits THEN NoMatch
      ELSE
        LET rest == MatchAt(pat, pi + 1, q, ti + n,
                            IF e.g = "" THEN g ELSE Put(g, e.g, SubSeq(q, ti, ti + n - 1)))
        IN  IF rest.ok THEN rest ELSE MatchRun(pat, pi, q, ti, g, n + step, step)

\* pattern.search(question): the match at the leftmost word it starts at
RECURSIVE SearchFrom(_, _, _)
SearchFrom(pat, q, start) ==
  IF start > Len(q) THEN NoMatch
  ELSE LET m == MatchAt(pat, 1, q, start, EmptyDict)
       IN  IF m.ok THEN m ELSE SearchFrom(pat, q, start + 1)

Search(pat, q) == SearchFrom(pat, q, 1)

\* normalize_state_name of parse_query
normalize_state_name(name) ==
  IF Len(name) = 1 /\ Lower(name[1]) = "karnatak" THEN <<"karnataka">>
  ELSE IF Len(name) = 1 /\ Lower(name[1]) = "odisha" THEN <<"odisha">>
  ELSE IF Len(name) >= 1 /\ Lower(name[Len(name)]) = "karnatak" THEN <<"karnataka">>
  ELSE name

\* int(text): the value of the digits; a text of more than 4300 digits makes
\* int() raise ValueError
IntRaises(group) == group[1] = HugeNumber
IntOf(group) == NumVal[group[1]]

(***************************************************************************)
(* The pattern rules of parse_query, in the order the code tries them.     *)
(***************************************************************************)
pattern ==
  Lits(<<"compare", "the", "average", "annual", "rainfall", "in">>) \o <<Lazy("s1")>>
  \o <<Lit("and"), Lazy("s2")>> \o Lits(<<"for", "the", "last">>) \o <<NumG("n")>>
  \o <<Lit("years"), Gap, Lit("top"), NumG("m")>> \o Lits(<<"most", "produced", "crops", "of">>)
  \o <<AnyLazy("crop_type"), EachOrEnd>>

pattern3a ==
  Lits(<<"compare", "rainfall", "in">>) \o <<Lazy("s1"), Lit("and"), Lazy("s2")>>
  \o Lits(<<"for", "the", "last">>) \o <<NumG("n"), Lit("years")>>

pattern3b ==
  Lits(<<"compare", "rainfall", "in">>) \o <<Lazy("s1"), Lit("and"), Lazy("s2")>>
  \o <<Lit("for"), NumG("n"), Lit("years")>>

pattern3 ==
  Lits(<<"compare", "rainfall", "in">>) \o <<Lazy("s1"), Lit("and"), Greedy("s2")>>

pattern4a ==
  Lits(<<"compare", "rainfall", "between">>) \o <<Lazy("s1"), Lit("and"), Lazy("s2")>>
  \o Lits(<<"for", "the", "last">>) \o <<NumG("n"), Lit("years")>>

pattern4b ==
  Lits(<<"compare", "rainfall", "between">>) \o <<Lazy("s1"), Lit("and"), Lazy("s2")>>
  \o <<Lit("for"), NumG("n"), Lit("years")>>

pattern4 ==
  Lits(<<"compare", "rainfall", "between">>) \o <<Lazy("s1"), Lit("and"), Greedy("s2")>>

pattern5 ==
  Lits(<<"identify", "the", "district", "in">>) \o <<Lazy("smax")>>
  \o Lits(<<"with", "the", "highest", "production", "of">>) \o <<Lazy("cmax"), Gap>>
  \o Lits(<<"compare", "that", "with", "the", "district", "with", "the", "lowest",
            "production", "of">>)
  \o <<Lazy("cmin"), Lit("in"), Greedy("smin")>>

pattern6 ==
  Lits(<<"list", "the", "top">>) \o <<NumG("n"), LitIn({"crop", "crops"})>>
  \o Lits(<<"produced", "in">>) \o <<Lazy("state")>> \o Lits(<<"during", "the", "last">>)
  \o <<NumG("years"), Lit("years")>>

pattern7 ==
  <<Lit("which"), Lit("district"), Opt("in"), Lazy("state"), Opt("had"), Opt("the"),
    Lit("highest"), Lazy("crop"), Opt("production"), Opt("in"), YearG("year")>>

pattern7b ==
  <<Lit("which"), Lit("district"), Opt("had"), Opt("the"), Lit("highest"), Word("crop"),
    Lit("in"), Lazy("state"), Lit("in"), YearG("year")>>

pattern8 ==
  <<Lit("compare"), Lazy("crop")>> \o Lits(<<"production", "across", "all", "districts", "in">>)
  \o <<Lazy("state")>> \o Lits(<<"for", "the", "last">>) \o <<NumG("years"), Lit("years")>>

(***************************************************************************)
(* pattern2:  average\s+annual\s+rainfall.*\b(s1)\b.*\b(s2)\b.*last\s+     *)
(* (\d+)\s+years .  The first .* takes as much as it can, so the match     *)
(* ends at the last "last N years" of the question, s2 is the blank before *)
(* that "last", and s1 is the word before the blank when it is made of     *)
(* letters, and else the blank before that word.  A blank strips to the    *)
(* empty text.                                                             *)
(***************************************************************************)
IsLastNYears(q, j) ==
  /\ j + 2 <= Len(q)
  /\ Lower(q[j]) = "last" /\ IsNum(q[j + 1]) /\ Lower(q[j + 2]) = "years"

IsAvgAnnualRainfall(q, i) ==
  /\ i + 2 <= Len(q)
  /\ Lower(q[i]) = "average" /\ Lower(q[i + 1]) = "annual" /\ Lower(q[i + 2]) = "rainfall"

Search2(q) ==
  LET ends == {j \in DOMAIN q : /\ IsLastNYears(q, j)
                                /\ \E i \in DOMAIN q : IsAvgAnnualRainfall(q, i) /\ i + 4 <= j}
  IN  IF ends = {} THEN NoMatch
      ELSE LET j == Max(ends)
           IN  [ok |-> TRUE,
                g |-> [x \in {"s1", "s2", "n"} |->
                         CASE x = "s1" -> IF IsAlpha(q[j - 1]) THEN <<q[j - 1]>> ELSE <<>>
                           [] x = "s2" -> <<>>
                           [] x = "n" -> <<q[j + 1]>>]]

(***************************************************************************)
(* The Intent each rule builds from its match                              *)
(***************************************************************************)
RainfallCompare(s1, s2, years) ==
  [intent |-> "rainfall_compare", state1 |-> s1, state2 |-> s2, years |-> years]

\* an order with the plain rainfall rule "in" before the combined rule
RuleOrderPlainFirst == <<5, 1, 2, 3, 4, 6, 7, 8, 9, 10, 11, 12, 13>>
\* the rules in the order parse_query tries them
RuleOrder == <<1, 2, 3, 4, 5, 6, 7, 8, 9, 10, 11, 12, 13>>

RuleCount == Len(RuleOrder)

RuleMatch(i, q) ==
  CASE i = 1 -> Search(pattern, q)
    [] i = 2 -> Search2(q)
    [] i = 3 -> Search(pattern3a, q)
    [] i = 4 -> Search(pattern3b, q)
    [] i = 5 -> Search(pattern3, q)
    [] i = 6 -> Search(pattern4a, q)
    [] i = 7 -> Search(pattern4b, q)
    [] i = 8 -> Search(pattern4, q)
    [] i = 9 -> Search(pattern5, q)
    [] i = 10 -> Search(pattern6, q)
    [] i = 11 -> Search(pattern7, q)
    [] i = 12 -> Search(pattern7b, q)
    [] i = 13 -> Search(pattern8, q)

RuleIntent(i, m) ==
  CASE i = 1 -> [intent |-> "rainfall_vs_top_crops", state1 |-> m.s1, state2 |-> m.s2,
                 years |-> IntOf(m.n), top_m |-> IntOf(m.m), crop_type |-> m.crop_type]
    [] i = 2 -> RainfallCompare(m.s1, m.s2, IntOf(m.n))
    [] i \in {3, 4, 6, 7} ->
         RainfallCompare(normalize_state_name(m.s1), normalize_state_name(m.s2), IntOf(m.n))
    [] i \in {5, 8} ->
         RainfallCompare(normalize_state_name(m.s1), normalize_state_name(m.s2), 5)
    [] i = 9 -> [intent |-> "district_crop_extrema_compare",
                 state_max |-> normalize_state_name(m.smax), crop_max |-> m.cmax,
                 state_min |-> normalize_state_name(m.smin), crop_min |-> m.cmin]
    [] i = 10 -> [intent |-> "top_crops_state", state |-> normalize_state_name(m.state),
                  top_n |-> IntOf(m.n), years |-> IntOf(m.years)]
    [] i = 11 -> [intent |-> "district_highest_crop_year",
                  state |-> normalize_state_name(m.state), crop |-> m.crop,
                  year |-> IntOf(m.year)]
    [] i = 12 -> [intent |-> "district_highest_crop_year",
                  state |-> normalize_state_name(m.state), crop |-> <<m.crop[1]>>,
                  year |-> IntOf(m.year)]
    [] i = 13 -> [intent |-> "district_crop_comparison",
                  state |-> normalize_state_name(m.state), crop |-> m.crop,
                  years |-> IntOf(m.years)]

\* the groups a rule converts with int()
IntGroups(i) ==
  CASE i = 1 -> {"n", "m"}
    [] i \in {2, 3, 4, 6, 7} -> {"n"}
    [] i = 10 -> {"n", "years"}
    [] i \in {11, 12} -> {"year"}
    [] i = 13 -> {"years"}
    [] OTHER -> {}

RuleRaises(i, m) == \E x \in IntGroups(i) : IntRaises(m[x])

(***************************************************************************)
(* _parse_with_keywords                                                    *)
(***************************************************************************)
\* the keywords that are pieces of a word
Inside(w) ==
  CASE w = "rainfall" -> {"rainfall", "rain"}
    [] w = "crops" -> {"crops", "crop"}
    [] w = "districts" -> {"districts", "district"}
    [] OTHER -> {w}

\* kw in question_lower, for a keyword of one word
HasWord(q, kw) == \E i \in DOMAIN q : kw \in Inside(Lower(q[i]))

\* the positions a name of one or more words occurs at in question_lower
Positions(q, name) ==
  {i \in DOMAIN q : /\ i + Len(name) - 1 <= Len(q)
                    /\ \A k \in DOMAIN name : Lower(q[i + k - 1]) = name[k]}

HasName(q, name) == Positions(q, name) # {}

RainfallStates ==
  << <<"karnataka">>, <<"tamil", "nadu">>, <<"maharashtra">>, <<"punjab">>, <<"gujarat">>,
     <<"uttar", "pradesh">>, <<"bihar">>, <<"west", "bengal">>, <<"odisha">>,
     <<"rajasthan">> >>

TopCropsStates ==
  << <<"karnataka">>, <<"tamil", "nadu">>, <<"maharashtra">>, <<"punjab">>, <<"gujarat">> >>

DistrictStates ==
  RainfallStates \o
  << <<"andhra", "pradesh">>, <<"telangana">>, <<"kerala">>, <<"haryana">>,
     <<"himachal", "pradesh">>, <<"madhya", "pradesh">>, <<"assam">>, <<"jharkhand">>,
     <<"chhattisgarh">> >>

Crops ==
  << <<"rice">>, <<"wheat">>, <<"sugarcane">>, <<"cotton">>, <<"maize">>, <<"jowar">>,
     <<"bajra">>, <<"millet">>, <<"pulses">>, <<"oilseed">>, <<"groundnut">>, <<"soybean">>,
     <<"barley">>, <<"mustard">>, <<"ragi">>, <<"tur">>, <<"gram">>, <<"moong">>, <<"urad">>,
     <<"arhar">> >>

\* [s for s in names if s in question_lower]
RECURSIVE Present(_, _, _)
Present(q, names, i) ==
  IF i > Len(names) THEN <<>>
  ELSE (IF HasName(q, names[i]) THEN <<names[i]>> ELSE <<>>) \o Present(q, names, i + 1)

\* re.search(r'(\d+)\s*years?'): the first number that a word "year..." follows
YearCount(q) ==
  LET at == {i \in DOMAIN q : /\ IsNum(q[i]) /\ i + 1 <= Len(q)
                              /\ Lower(q[i + 1]) \in {"year", "years"}}
  IN  IF at = {} THEN <<>> ELSE <<q[Min(at)]>>

\* re.search(r'top\s+(\d+)'): the first "top" that a number follows
TopCount(q) ==
  LET at == {i \in DOMAIN q : Lower(q[i]) = "top" /\ i + 1 <= Len(q) /\ IsNum(q[i + 1])}
  IN  IF at = {} THEN <<>> ELSE <<q[Min(at) + 1]>>

\* re.search(r'\b(20\d{2}|19\d{2})\b'): the first word that is such a year
YearWord(q) ==
  LET at == {i \in DOMAIN q : IsFourDigits(q[i])}
  IN  IF at = {} THEN <<>> ELSE <<q[Min(at)]>>

\* (match.start(), name) of the names found, in the order of the list
RECURSIVE PositionsOf(_, _, _)
PositionsOf(q, names, i) ==
  IF i > Len(names) THEN <<>>
  ELSE (IF HasName(q, names[i])
          THEN << [pos |-> Min(Positions(q, names[i])), name |-> names[i]] >> ELSE <<>>)
       \o PositionsOf(q, names, i + 1)

\* positions.sort()[0]: the entry at the leftmost position
Leftmost(positions) ==
  CHOOSE e \in Range(positions) : \A f \in Range(positions) : e.pos <= f.pos

\* what a call of the parser comes to: an Intent, or an exception
Raise(error) == [raised |-> TRUE, error |-> error, intent |-> [intent |-> "none"]]
Return(intent) == [raised |-> FALSE, error |-> "", intent |-> intent]

\* the branch for 'district' with 'highest' or 'had': the entities it finds, and
\* what becomes of them
DistrictBranch(q) ==
  LET year == YearWord(q)
      crop_positions == PositionsOf(q, Crops, 1)
      state_positions == PositionsOf(q, DistrictStates, 1)
      after == {k \in DOMAIN state_positions :
                  crop_positions # <<>> /\
                  state_positions[k].pos > Leftmost(crop_positions).pos}
      state == IF state_positions = <<>> THEN <<>>
               ELSE IF after # {} THEN state_positions[Min(after)].name
               ELSE Leftmost(state_positions).name
      crop == IF crop_positions = <<>> THEN <<>> ELSE Leftmost(crop_positions).name
  IN  \* with a state and a crop, both returns call normalize_state_name, a
      \* name this method cannot see: NameError
      [state |-> state, crop |-> crop, year |-> year,
       raised |-> state # <<>> /\ crop # <<>>]

_parse_with_keywords(q, av) ==
  LET states == Present(q, RainfallStates, 1)
      year_match == YearCount(q)
      rainfall == HasWord(q, "rainfall") \/ HasWord(q, "rain") \/ HasWord(q, "precipitation")
      top_match == TopCount(q)
      top_states == Present(q, TopCropsStates, 1)
      top == HasWord(q, "top") /\ HasWord(q, "crop")
      district == HasWord(q, "district") /\ (HasWord(q, "highest") \/ HasWord(q, "had"))
  IN  IF rainfall /\ year_match # <<>> /\ IntRaises(year_match) THEN Raise("ValueError")
      ELSE IF rainfall /\ Len(states) >= 2
        THEN Return(RainfallCompare(states[1], states[2],
                      IF year_match # <<>> THEN IntOf(year_match) ELSE 5))
      ELSE IF top /\ (\/ (top_match # <<>> /\ IntRaises(top_match))
                      \/ (year_match # <<>> /\ IntRaises(year_match)))
        THEN Raise("ValueError")
      ELSE IF top /\ top_states # <<>>
        THEN Return([intent |-> "top_crops_state", state |-> top_states[1],
                     top_n |-> IF top_match # <<>> THEN IntOf(top_match) ELSE 10,
                     years |-> IF year_match # <<>> THEN IntOf(year_match) ELSE 5])
      ELSE IF district /\ DistrictBranch(q).raised THEN Raise("NameError")
      ELSE Raise("Exception")

(***************************************************************************)
(* parse_query                                                             *)
(***************************************************************************)
\* a question is the sequence of its words
UnknownIntent(q, av) ==
  [intent |-> "unknown", question |-> q, available_datasets |-> av,
   error |-> "Query not recognized. Please use one of the supported query formats.",
   suggestions |-> << "Compare rainfall in [State1] and [State2] for the last N years",
                      "List the top N crops produced in [State] during the last M years",
                      "Which district in [State] had the highest [Crop] production in [Year]",
                      "Compare [Crop] production across all districts in [State] for the last N years" >>]

\* rule i matched with groups m: the return of its branch
RuleOutcome(i, m) == IF RuleRaises(i, m) THEN Raise("ValueError") ELSE Return(RuleIntent(i, m))

\* the rules from the k-th of the order on, then the keyword extractor under
\* try/except
RECURSIVE Cascade(_, _, _, _)
Cascade(order, k, q, av) ==
  IF k > Len(order)
    THEN LET r == _parse_with_keywords(q, av)
         IN  IF r.raised THEN Return(UnknownIntent(q, av)) ELSE r
  ELSE LET m == RuleMatch(order[k], q)
       IN  IF m.ok THEN RuleOutcome(order[k], m.g) ELSE Cascade(order, k + 1, q, av)

\* a parser that remembers: after a recognized question, the next is Unknown
parse_query_remembering(q, av) ==
  IF parsed.intent.intent \in {"none", "unknown"} THEN Cascade(RuleOrder, 1, q, av)
  ELSE Return(UnknownIntent(q, av))
parse_query(q, av) == Cascade(RuleOrder, 1, q, av)

(***************************************************************************)
(* The requests the engine is driven with                                  *)
(***************************************************************************)
Catalogs == {EmptyDict, [agriculture |-> <<"crop_rid">>]}

\* the Intents plan_and_execute is called with
Intents ==
  { [intent |-> "rainfall_vs_top_crops", state1 |-> "punjab", state2 |-> "karnataka",
     years |-> 1, top_m |-> 1, crop_type |-> "wheat"],
    [intent |-> "rainfall_compare", state1 |-> "punjab", state2 |-> "Karnataka", years |-> 5],
    [intent |-> "rainfall_compare", state1 |-> "the", state2 |-> "", years |-> 0],
    [intent |-> "district_crop_extrema_compare", state_max |-> "punjab", crop_max |-> "wheat",
     state_min |-> "karnataka", crop_min |-> "rice"],
    [intent |-> "top_crops_state", state |-> "punjab", top_n |-> 2, years |-> 1],
    [intent |-> "district_highest_crop_year", state |-> "punjab", crop |-> "wheat",
     year |-> 2020],
    [intent |-> "district_crop_comparison", state |-> "karnatak", crop |-> "rice",
     years |-> 2],
    UnknownIntent(<<"hello">>, EmptyDict),
    UnknownIntent(<<"which", "crop">>, [agriculture |-> <<"crop_rid">>]),
    [intent |-> "bogus"],
    [question |-> <<"hello">>] }

RecognizedIntents ==
  {"rainfall_vs_top_crops", "rainfall_compare", "district_crop_extrema_compare",
   "top_crops_state", "district_highest_crop_year", "district_crop_comparison"}

\* the longest step list execute is called with directly
MaxSteps == 2

\* the steps of those lists: well-formed, unrecognized and malformed ones
StepUniverse ==
  { StepStr("demo-step"),
    StepDict([type |-> "compute_magic", state |-> "punjab"]),
    StepInt,
    StepDict([type |-> "compute_rainfall_compare", state1 |-> "punjab"]),
    StepDict([type |-> "compute_rainfall_compare", state1 |-> "punjab",
              state2 |-> "karnataka", years |-> 1]) }

StepLists == UNION {[1..n -> StepUniverse] : n \in 0..MaxSteps}

\* the datasets the application loads into the store
WideTable ==
  [columns |-> <<"_year", "Wheat", "Rice">>,
   rows |-> << [c \in {"_year", "Wheat", "Rice"} |->
                  CASE c = "_year" -> Str("2014-15") [] c = "Wheat" -> Num(10)
                    [] c = "Rice" -> Num(30)],
               [c \in {"_year", "Wheat", "Rice"} |->
                  CASE c = "_year" -> Num(2015) [] c = "Wheat" -> Num(25)
                    [] c = "Rice" -> NaN] >>]

AppDatasets ==
  { [category |-> "agriculture", name |-> MajorCropsName, df |-> WideTable],
    [category |-> "climate", name |-> DistrictName, df |-> NoYearTable] }

NoResponse == [op |-> "none"]

NotParsed == Return([intent |-> "none"])

Init ==
  /\ cfg \in Configs
  /\ data_store = NewDataStore
  /\ response = NoResponse
  /\ question = <<>>
  /\ available = EmptyDict
  /\ parsed = NotParsed
  /\ replanned = FALSE
  /\ reparsed = FALSE

\* the application calls data_store.add_dataset
AddDataset ==
  /\ \E a \in AppDatasets :
       data_store' = add_dataset(data_store, a.category, a.name, a.df,
                                 [id |-> "app", name |-> a.name])
  /\ UNCHANGED <<cfg, response, question, available, parsed, replanned, reparsed>>

\* what a call leaves behind: its arguments and its outcome (a call that
\* raised returns nothing)
Outcome(op, p, o) ==
  [op |-> op, parsed |-> p, raised |-> o.raised, plan |-> o.plan,
   answer_data |-> IF o.raised THEN EmptyDict ELSE o.answer_data]

\* planner.plan_and_execute(parsed)
PlanAndExecute ==
  /\ \E p \in Intents :
       \E o \in plan_and_execute(cfg, data_store, p) :
         /\ response' = Outcome("plan_and_execute", p, o)
         /\ data_store' = o.store
         /\ replanned' = (response.op = "plan_and_execute" /\ response.parsed = p)
  /\ UNCHANGED <<cfg, question, available, parsed, reparsed>>

\* executor.execute(plan) with a step list of any shape
Execute ==
  /\ \E steps \in StepLists :
       \E o \in execute(cfg, data_store, [intent |-> "direct", steps |-> steps]) :
         /\ response' = Outcome("execute", [intent |-> "direct"], o)
         /\ data_store' = o.store
  /\ replanned' = FALSE
  /\ UNCHANGED <<cfg, question, available, parsed, reparsed>>

\* the application: datasets are loaded into the store and questions are
\* planned and executed
Next == AddDataset \/ PlanAndExecute

Spec == Init /\ [][Next]_vars

\* the executor called on its own, with step lists of any shape
NextExec == Execute

SpecExec == Init /\ [][NextExec]_vars

(***************************************************************************)
(* The district-table fallback chain called on its own                     *)
(***************************************************************************)
\* what the store can hold under the district dataset name before a run:
\* some other dataset, or a table the application loaded
ChainDatasets ==
  { [category |-> "agriculture", name |-> DistrictName, df |-> JunkTable],
    [category |-> "climate", name |-> DistrictName, df |-> NoYearTable] }

CacheDataset ==
  /\ \E a \in ChainDatasets :
       data_store' = add_dataset(data_store, a.category, a.name, a.df,
                                 [id |-> "app", name |-> a.name])
  /\ UNCHANGED <<cfg, response, question, available, parsed, replanned, reparsed>>

\* executor._load_district_crop_production(): the table it returns, the
\* requests it sent, and the store before and after it
LoadDistrict ==
  /\ \E o \in _load_district_crop_production(cfg, data_store) :
       /\ response' = [op |-> "load_district", df |-> o.df, log |-> o.log,
                       before |-> data_store, after |-> o.store]
       /\ data_store' = o.store
  /\ UNCHANGED <<cfg, question, available, parsed, replanned, reparsed>>

NextLoad == CacheDataset \/ LoadDistrict

SpecLoad == Init /\ [][NextLoad]_vars

(***************************************************************************)
(* The column resolver (find_col, pick) called on its own                  *)
(***************************************************************************)
\* the longest candidate list and the widest table it is called with
MaxCandidates == 2
MaxColumns == 2

\* spellings of two column names
ColumnNames == {"State", "STATE", "state", "Crop", "crop"}

CandidateLists == UNION {[1..n -> ColumnNames] : n \in 0..MaxCandidates}

\* the columns of a table built from JSON records are distinct
ColumnLists ==
  {cols \in UNION {[1..n -> ColumnNames] : n \in 0..MaxColumns} :
     \A i, j \in DOMAIN cols : cols[i] = cols[j] => i = j}

\* a call of find_col(candidates) on a table with the columns cols is pending
InitResolve ==
  /\ cfg \in Configs
  /\ data_store = NewDataStore
  /\ response \in {[op |-> "call find_col", columns |-> cols, candidates |-> candidates] :
                     cols \in ColumnLists, candidates \in CandidateLists}
  /\ question = <<>>
  /\ available = EmptyDict
  /\ parsed = NotParsed
  /\ replanned = FALSE
  /\ reparsed = FALSE

\* the call returns
FindCol ==
  /\ response.op = "call find_col"
  /\ response' = [op |-> "find_col", columns |-> response.columns,
                  candidates |-> response.candidates,
                  result |-> find_col([columns |-> response.columns, rows |-> <<>>],
                                      response.candidates)]
  /\ UNCHANGED <<cfg, data_store, question, available, parsed, replanned, reparsed>>

NextResolve == FindCol

SpecResolve == InitResolve /\ [][NextResolve]_vars

(***************************************************************************)
(* The questions the parser is driven with                                 *)
(***************************************************************************)
StateNames == { <<"Punjab">>, <<"Karnatak">>, <<"tamil", "nadu">> }

\* the words of a template, with the names and the number put in
RECURSIVE Words(_, _, _, _)
Words(text, name1, name2, n) ==
  IF text = <<>> THEN <<>>
  ELSE LET w == Head(text)
       IN  (CASE w = "<s1>" -> name1 [] w = "<s2>" -> name2 [] w = "<n>" -> <<n>>
              [] OTHER -> <<w>>) \o Words(Tail(text), name1, name2, n)

Templates ==
  { <<"Compare", "the", "average", "annual", "rainfall", "in", "<s1>", "and", "<s2>", "for",
      "the", "last", "<n>", "years", "list", "the", "top", "2", "most", "produced", "crops",
      "of", "rice", "in", "each", "state">>,
    <<"compare", "the", "average", "annual", "rainfall", "in", "<s1>", "and", "<s2>", "for",
      "the", "last", "5", "years", "and", "the", "top", "<n>", "most", "produced", "crops",
      "of", "wheat", "2020">>,
    <<"Compare", "the", "average", "annual", "rainfall", "in", "<s1>", "and", "<s2>", "for",
      "the", "last", "<n>", "years">>,
    <<"average", "annual", "rainfall", "<s1>", "last", "<n>", "years", "<s2>", "last", "5",
      "years">>,
    <<"average", "annual", "rainfall", "last", "<n>", "years", "in", "<s1>">>,
    <<"average", "annual", "rainfall", "<s1>", "2020", "last", "<n>", "years">>,
    <<"Compare", "rainfall", "in", "<s1>", "and", "<s2>", "for", "the", "last", "<n>",
      "years">>,
    <<"compare", "rainfall", "in", "<s1>", "and", "<s2>", "for", "<n>", "years">>,
    <<"compare", "rainfall", "in", "<s1>", "and", "<s2>">>,
    <<"compare", "rainfall", "in", "<s1>", "and", "<s2>", "over", "<n>", "years">>,
    <<"compare", "rainfall", "between", "<s1>", "and", "<s2>", "for", "the", "last", "<n>",
      "years">>,
    <<"compare", "rainfall", "between", "<s1>", "and", "<s2>", "for", "<n>", "years">>,
    <<"Compare", "rainfall", "between", "<s1>", "and", "<s2>">>,
    <<"identify", "the", "district", "in", "<s1>", "with", "the", "highest", "production",
      "of", "wheat", "in", "2020", "and", "compare", "that", "with", "the", "district",
      "with", "the", "lowest", "production", "of", "rice", "in", "<s2>">>,
    <<"list", "the", "top", "<n>", "crops", "produced", "in", "<s1>", "during", "the", "last",
      "<n>", "years">>,
    <<"which", "district", "in", "<s1>", "had", "the", "highest", "Wheat", "production", "in",
      "2020">>,
    <<"which", "district", "had", "the", "highest", "wheat", "in", "<s1>", "in", "2019">>,
    <<"which", "district", "highest", "rice", "in", "<s1>", "in", "2019">>,
    <<"compare", "rice", "production", "across", "all", "districts", "in", "<s1>", "for",
      "the", "last", "<n>", "years">>,
    <<"compare", "wheat", "production", "across", "all", "districts", "in", "<s1>", "for",
      "the", "last", "<n>", "years", "compare", "rainfall", "in", "<s1>", "and", "<s2>">>,
    <<"list", "the", "top", "<n>", "crops", "produced", "in", "<s1>", "during", "the", "last",
      "2", "years", "compare", "rainfall", "between", "<s1>", "and", "<s2>", "for", "3",
      "years">>,
    <<"rain", "in", "<s1>", "and", "<s2>">>,
    <<"precipitation", "<s1>", "<s2>", "<n>", "years">>,
    <<"rainfall", "of", "<s1>", "top", "<n>", "crops">>,
    <<"top", "<n>", "crops", "of", "<s1>", "in", "5", "year">>,
    <<"top", "crops", "<s1>">>,
    <<"district", "of", "<s1>", "had", "wheat", "and", "rice", "2020">>,
    <<"district", "rice", "highest", "<n>", "years", "<s1>", "<s2>">>,
    <<"hello", "<s1>">> }

\* the templates that carry a count are also asked with the numbers 0 and
\* HugeNumber
Questions ==
  {Words(t, s1, <<"karnataka">>, "3") : t \in Templates, s1 \in StateNames}
  \cup {Words(t, <<"maharashtra">>, <<"Punjab">>, n) :
           t \in {u \in Templates : u[1] \in {"Compare", "precipitation", "top", "list"}},
           n \in {"0", HugeNumber}}

\* the parser is built on its own: one configuration is enough
InitParse == Init /\ cfg = Config("key", "rain_rid", "crop_rid", "dist_rid")

\* parser.parse_query(question, available)
ParseQuery ==
  /\ \E q \in Questions, av \in Catalogs :
       /\ question' = q
       /\ available' = av
       /\ parsed' = parse_query(q, av)
       /\ reparsed' = (parsed # NotParsed /\ q = question /\ av = available)
  /\ UNCHANGED <<cfg, data_store, response, replanned>>

NextParse == ParseQuery

SpecParse == InitParse /\ [][NextParse]_vars

(***************************************************************************)
(* The computations called on their own: crop tables are loaded into the   *)
(* store and a computation is run with arguments of its own.               *)
(***************************************************************************)
LongRow(st, cr, yr, pr) ==
  [c \in {"State", "Crop", "Year", "Production"} |->
     CASE c = "State" -> Str(st) [] c = "Crop" -> Str(cr) [] c = "Year" -> Num(yr)
       [] c = "Production" -> Num(pr)]

\* a long format table: one row per state, crop and year
LongTable ==
  [columns |-> <<"State", "Crop", "Year", "Production">>,
   rows |-> << LongRow("Punjab", "Wheat", 2019, 100), LongRow("Punjab", "Rice", 2019, 50),
               LongRow("Punjab", "Wheat", 2020, 120), LongRow("Punjab", "Rice", 2020, 40),
               LongRow("Karnataka", "Rice", 2021, 30) >>]

\* a district table whose state and crop subsets end in different years
SeasonTable ==
  [columns |-> <<"State_Name", "District_Name", "Crop", "Production", "Year">>,
   rows |-> << Row("Punjab", "Ludhiana", "Wheat", Num(100), Num(2019)),
               Row("Punjab", "Amritsar", "Wheat", Num(120), Num(2020)),
               Row("Punjab", "Ludhiana", "Wheat", Num(90), Num(2020)),
               Row("Karnataka", "Mysuru", "Rice", Num(30), Num(2021)) >>]

CropDatasets ==
  { [category |-> "agriculture", name |-> DistrictName, df |-> SeasonTable],
    [category |-> "agriculture", name |-> MajorCropsName, df |-> DistrictTable],
    [category |-> "agriculture", name |-> MajorCropsName, df |-> NoYearTable],
    [category |-> "agriculture", name |-> MajorCropsName, df |-> LongTable] }

CacheCrops ==
  /\ \E a \in CropDatasets :
       data_store' = add_dataset(data_store, a.category, a.name, a.df,
                                 [id |-> "app", name |-> a.name])
  /\ UNCHANGED <<cfg, response, question, available, parsed, replanned, reparsed>>

\* what a computation leaves behind: its arguments, its outcome and the
\* store before and after it
Computed(op, args, o, st) ==
  [op |-> op, args |-> args, raised |-> o.raised, payload |-> o.payload, before |-> st,
   after |-> o.store]

HighestArgs ==
  { [state |-> "punjab", crop |-> "wheat", year |-> 2020],
    [state |-> "karnataka", crop |-> "rice", year |-> 2020],
    [state |-> "goa", crop |-> "wheat", year |-> 2019] }

\* executor._compute_district_highest_crop_year(state, crop, year)
HighestCropYear ==
  /\ \E a \in HighestArgs :
       \E o \in _compute_district_highest_crop_year(cfg, data_store, a.state, a.crop, a.year) :
         /\ response' = Computed("district_highest_crop_year", a, o, data_store)
         /\ data_store' = o.store
  /\ UNCHANGED <<cfg, question, available, parsed, replanned, reparsed>>

TopCropsArgs ==
  { [state |-> "punjab", top_n |-> 2, years |-> 2],
    [state |-> "punjab", top_n |-> 3, years |-> 1],
    [state |-> "punjab", top_n |-> 2, years |-> 0],
    [state |-> "goa", top_n |-> 1, years |-> 1] }

\* executor._compute_top_crops_state(state, top_n, years)
TopCropsState ==
  /\ \E a \in TopCropsArgs :
       \E o \in _compute_top_crops_state(cfg, data_store, a.state, a.top_n, a.years) :
         /\ response' = Computed("top_crops_state", a, o, data_store)
         /\ data_store' = o.store
  /\ UNCHANGED <<cfg, question, available, parsed, replanned, reparsed>>

ExtremaArgs ==
  { [state_max |-> "punjab", crop_max |-> "wheat", state_min |-> "karnataka",
     crop_min |-> "rice"],
    [state_max |-> "goa", crop_max |-> "wheat", state_min |-> "punjab",
     crop_min |-> "wheat"],
    [state_max |-> "karnataka", crop_max |-> "rice", state_min |-> "goa",
     crop_min |-> "rice"] }

\* executor._compute_district_crop_extrema(state_max, crop_max, state_min,
\* crop_min)
CropExtrema ==
  /\ \E a \in ExtremaArgs :
       \E o \in _compute_district_crop_extrema(cfg, data_store, a.state_max, a.crop_max,
                                                a.state_min, a.crop_min) :
         /\ response' = Computed("district_crop_extrema_compare", a, o, data_store)
         /\ data_store' = o.store
  /\ UNCHANGED <<cfg, question, available, parsed, replanned, reparsed>>

ComparisonArgs ==
  { [state |-> "punjab", crop |-> "wheat", years |-> 1],
    [state |-> "karnataka", crop |-> "rice", years |-> 2] }

\* executor._compute_district_crop_comparison(state, crop, years)
CropComparison ==
  /\ \E a \in ComparisonArgs :
       \E o \in _compute_district_crop_comparison(cfg, data_store, a.state, a.crop, a.years) :
         /\ response' = Computed("district_crop_comparison", a, o, data_store)
         /\ data_store' = o.store
  /\ UNCHANGED <<cfg, question, available, parsed, replanned, reparsed>>

NextCompute ==
  \/ CacheCrops
  \/ LoadDistrict
  \/ HighestCropYear
  \/ TopCropsState
  \/ CropExtrema
  \/ CropComparison

SpecCompute == Init /\ [][NextCompute]_vars

(***************************************************************************)
(* The DataStore called on its own: datasets are added under any category  *)
(* and name.                                                               *)
(***************************************************************************)
Categories == {"agriculture", "climate", "weather"}

DatasetNames == {DistrictName, MajorCropsName}

StoreTables == {JunkTable, NoYearTable}

InitStore == Init /\ cfg = Config("key", "rain_rid", "crop_rid", "dist_rid")

\* data_store.add_dataset(category, name, df, metadata)
AddAnyDataset ==
  /\ \E c \in Categories, n \in DatasetNames, t \in StoreTables :
       /\ data_store' = add_dataset(data_store, c, n, t, [id |-> "app", name |-> n])
       /\ response' = [op |-> "add_dataset", category |-> c, name |-> n, df |-> t]
  /\ UNCHANGED <<cfg, question, available, parsed, replanned, reparsed>>

NextStore == AddAnyDataset

SpecStore == InitStore /\ [][NextStore]_vars

(***************************************************************************)
(* Properties of QueryExecutor.execute and QueryPlanner.plan_and_execute,  *)
(* stated on the last call (response) under Spec                           *)
(***************************************************************************)
StepType(step) == Get(step.d, "type")

\* a step execute passes over: a string, or a dict of no recognized type
Unrecognized(step) ==
  step.py = "str" \/ (step.py = "dict" /\ ResultKey(StepType(step)) = None)

\* a step whose computation execute can call: a dict of a recognized type
\* with every argument of that type
Runnable(step) ==
  /\ step.py = "dict"
  /\ ResultKey(StepType(step)) # None
  /\ HasKeys(step.d, StepArgs(StepType(step)))

Called == response.op \in {"plan_and_execute", "execute"}
Steps == response.plan.steps
UnrecognizedIntent ==
  response.op = "plan_and_execute" /\ Get(response.parsed, "intent") \notin RecognizedIntents

\* C1: when the plan has two or more steps and all of them are recognized
\* and complete, execute returns and every step's key is in answer_data,
\* even if a computation fails.
C1_StepIsolation ==
  (Called /\ Len(Steps) >= 2 /\ \A i \in DOMAIN Steps : Runnable(Steps[i]))
    => /\ ~response.raised
       /\ \A i \in DOMAIN Steps : ResultKey(StepType(Steps[i])) \in DOMAIN response.answer_data

\* C2: execute returns a response for a step list none of whose steps it
\* can run: strings, steps that are neither strings nor dicts, and dicts of
\* a recognized type that lack an argument.
C2_NeverRaisesOnMalformed ==
  (response.op = "execute" /\ \A i \in DOMAIN Steps : ~Runnable(Steps[i]))
    => ~response.raised

\* the step list without its unrecognized steps
Recognized(steps) == SelectSeq(steps, LAMBDA step : ~Unrecognized(step))

\* C3: the unrecognized steps of a step list add no key to answer_data, and
\* execute comes to what it comes to on the list without them: the same
\* exception or the same keys and payloads, and the same store.
C3_UnrecognizedSkipped ==
  [][(response' # response /\ response'.op = "execute")
       => /\ DOMAIN response'.answer_data \subseteq
               {ResultKey(StepType(response'.plan.steps[i])) :
                  i \in {j \in DOMAIN response'.plan.steps :
                           ~Unrecognized(response'.plan.steps[j])}}
          /\ \E o \in execute(cfg, data_store,
                              [intent |-> "direct",
                               steps |-> Recognized(response'.plan.steps)]) :
               /\ o.raised = response'.raised
               /\ o.store = data_store'
               /\ (~o.raised => o.answer_data = response'.answer_data)]_vars

C3_Witness ==
  /\ response.op = "execute" /\ ~response.raised
  /\ \E i \in DOMAIN Steps : Steps[i].py = "dict" /\ Unrecognized(Steps[i])
  /\ "rainfall_compare" \in DOMAIN response.answer_data

\* C4: for an Unknown intent and any other intent that is not recognized,
\* the plan handed to the executor has no step.
C4_EmptyPlanForUnknown == UnrecognizedIntent => Len(Steps) = 0

\* C5: planning and executing an Unknown (or unrecognized) intent returns,
\* and its answer_data is empty, whatever the store holds.
C5_UnknownRunsClean ==
  UnrecognizedIntent => (~response.raised /\ response.answer_data = EmptyDict)

C5_Witness ==
  /\ UnrecognizedIntent /\ Get(response.parsed, "intent") = "unknown"
  /\ response.parsed.available_datasets # EmptyDict
  /\ data_store # NewDataStore
  /\ ~response.raised

\* the items of a dict but the one that names its kind
ArgsOf(d, tag) == [k \in (DOMAIN d) \ {tag} |-> d[k]]

\* C6: the plan of a rainfall_vs_top_crops intent has 2 steps, rainfall
\* compare then top crops, both with the intent's state1 and state2; the
\* plan of each other recognized intent has 1 step with the intent's
\* arguments.
C6_PlanSize ==
  (response.op = "plan_and_execute" /\ Get(response.parsed, "intent") \in RecognizedIntents)
    => LET p == response.parsed
       IN  IF p.intent = "rainfall_vs_top_crops"
             THEN /\ Len(Steps) = 2
                  /\ StepType(Steps[1]) = "compute_rainfall_compare"
                  /\ StepType(Steps[2]) = "compute_top_crops"
                  /\ \A i \in {1, 2} : /\ Steps[i].d.state1 = p.state1
                                       /\ Steps[i].d.state2 = p.state2
           ELSE /\ Len(Steps) = 1
                /\ Steps[1].py = "dict"
                /\ ArgsOf(Steps[1].d, "type") = ArgsOf(p, "intent")

C6_Witness ==
  /\ response.op = "plan_and_execute"
  /\ Get(response.parsed, "intent") = "rainfall_vs_top_crops"
  /\ Len(Steps) = 2 /\ ~response.raised

C9_NeverRaises == ~parsed.raised

\* the rules that match the question
Matching(q) == {i \in 1..RuleCount : RuleMatch(i, q).ok}

\* C10: when pattern rules match the question, parse_query comes to what
\* the first of them in source order builds (the combined rule 1, the plain
\* rainfall rules 2..8, district extrema 9, top crops in state 10, district
\* highest 11 and 12, district comparison 13); it comes to what the keyword
\* extractor finds, or to Unknown, only when no rule matches.
C10_FirstMatchWins ==
  question # <<>> =>
    IF Matching(question) # {}
      THEN LET i == Min(Matching(question))
           IN  parsed = RuleOutcome(i, RuleMatch(i, question).g)
    ELSE LET r == _parse_with_keywords(question, available)
         IN  parsed = IF r.raised THEN Return(UnknownIntent(question, available)) ELSE r

C10_Witness ==
  /\ question # <<>>
  /\ {1, 2} \subseteq Matching(question)
  /\ ~parsed.raised /\ parsed.intent.intent = "rainfall_vs_top_crops"

(***************************************************************************)
(* Properties of the column resolver, stated on the last call under        *)
(* SpecResolve                                                             *)
(***************************************************************************)
\* the candidates that are a column as spelled, and those that are one
\* case-insensitively
ExactHits == {i \in DOMAIN response.candidates :
                response.candidates[i] \in Range(response.columns)}
CaseHits == {i \in DOMAIN response.candidates :
               \E c \in Range(response.columns) : Lower(c) = Lower(response.candidates[i])}

\* C12 as stated: the resolver returns the column that matches the earliest
\* candidate that matches any column case-insensitively, and None only when
\* no candidate does.
C12_FirstCandidateCaseInsensitive ==
  response.op = "find_col" =>
    IF CaseHits = {} THEN response.result = None
    ELSE /\ response.result \in Range(response.columns)
         /\ Lower(response.result) = Lower(response.candidates[Min(CaseHits)])

\* C12 amended: the resolver returns the earliest candidate that is a
\* column as spelled; when no candidate is, it returns a column that
\* matches the earliest candidate that matches case-insensitively; it
\* returns None exactly when no candidate matches case-insensitively.
C12_ExactThenCaseInsensitive ==
  response.op = "find_col" =>
    /\ ExactHits # {} => response.result = response.candidates[Min(ExactHits)]
    /\ (ExactHits = {} /\ CaseHits # {}) =>
         /\ response.result \in Range(response.columns)
         /\ Lower(response.result) = Lower(response.candidates[Min(CaseHits)])
    /\ response.result = None <=> CaseHits = {}

\* a later candidate is a column as spelled while an earlier one matches
\* only case-insensitively
C12_Witness ==
  /\ response.op = "find_col"
  /\ ExactHits # {} /\ Min(CaseHits) < Min(ExactHits)
  /\ Lower(response.candidates[Min(CaseHits)]) # Lower(response.candidates[Min(ExactHits)])

\* C13: the resolver returns None or one of the table's columns.
C13_SoundAndTotal ==
  response.op = "find_col" =>
    response.result \in Range(response.columns) \cup {None}

\* the case-insensitive pass returned a column spelled unlike the candidate
C13_Witness ==
  /\ response.op = "find_col"
  /\ ExactHits = {} /\ CaseHits # {}
  /\ response.result \notin Range(response.candidates)

(***************************************************************************)
(* Properties of the district-table fallback chain, stated on the last run *)
(* under SpecLoad                                                          *)
(***************************************************************************)
\* some column of the table is one of the names, whatever the case
HasRole(df, names) ==
  \E c \in Range(df.columns) : \E n \in names : Lower(c) = Lower(n)

\* the table has rows and a column for each of the roles STATE, DISTRICT,
\* CROP and PRODUCTION
DistrictSchema(df) ==
  /\ df.rows # <<>> /\ df.columns # <<>>
  /\ HasRole(df, {"State_Name", "STATE", "State", "STATE/UT", "STATE_UT_NAME",
                  "State Name", "state"})
  /\ HasRole(df, {"District_Name", "District", "DISTRICT", "District Name", "district"})
  /\ HasRole(df, {"Crop", "CROP", "Crop_Name", "Commodity", "CROP_NAME", "crop"})
  /\ HasRole(df, {"Production", "PRODUCTION", "Prodn", "PROD", "production_tonnes",
                  "Prod", "production"})

Loaded == response.op = "load_district"

\* the run found a valid table in the cache
ValidCached ==
  LET cached == get_dataset(response.before, DistrictName)
  IN  cached.found /\ DistrictSchema(cached.df)

\* the requests of a run: the configured identifier before any other, and
\* for each identifier CKAN before data.gov.in
InChainOrder(log) ==
  /\ \A i, j \in DOMAIN log :
       (i < j /\ log[j].rid = cfg.district_crop_production_resource_id)
         => log[i].rid = log[j].rid
  /\ \A i, j \in DOMAIN log :
       (i < j /\ log[j].rid # log[i].rid) => \A k \in j..Len(log) : log[k].rid # log[i].rid
  /\ \A j \in DOMAIN log :
       IF log[j].endpoint = "ckan"
         THEN \A i \in 1..(j - 1) : log[i].rid # log[j].rid
         ELSE \E i \in 1..(j - 1) : log[i] = Req("ckan", log[j].rid)

\* C14: a valid cached table is returned without any request and without a
\* write; otherwise the requests go out in chain order, a table that comes
\* back is valid and was stored under the district dataset name with the
\* identifier of the last request made, and nothing is requested after it.
C14_ChainOrder ==
  Loaded =>
    IF ValidCached
      THEN /\ response.df = get_dataset(response.before, DistrictName).df
           /\ response.log = <<>>
           /\ response.after = response.before
      ELSE /\ InChainOrder(response.log)
           /\ response.df # EmptyDF =>
                /\ DistrictSchema(response.df)
                /\ response.log # <<>>
                /\ response.after =
                     add_dataset(response.before, "agriculture", DistrictName, response.df,
                                 DistrictMeta(response.log[Len(response.log)].rid))

\* the second identifier's retrieval was cached after the first identifier
\* was tried on both endpoints
C14_Witness ==
  /\ Loaded /\ ~ValidCached /\ response.df = DistrictTable
  /\ response.log[1] = Req("ckan", "dist_rid")
  /\ response.log[Len(response.log)].rid = "disc_rid"
  /\ get_dataset(response.after, DistrictName).df = DistrictTable

\* C15: a run that comes back without a valid table comes back with the
\* empty table and leaves the store as it was.
C15_ExhaustionIsEmpty ==
  (Loaded /\ ~DistrictSchema(response.df)) =>
    /\ response.df = EmptyDF
    /\ response.after = response.before

\* both identifiers were requested on both endpoints, to no avail
C15_Witness ==
  /\ Loaded /\ response.df = EmptyDF /\ response.after = response.before
  /\ {Req("ckan", "dist_rid"), Req("data.gov.in", "dist_rid"),
      Req("ckan", "disc_rid"), Req("data.gov.in", "disc_rid")} \subseteq Range(response.log)

\* C16: every entry of the store that the executor wrote (its metadata
\* carries a resource identifier) is the district dataset and passes the
\* district schema validation.
C16_CacheWritesValid ==
  \A name \in DOMAIN data_store.metadata :
    data_store.metadata[name].id # "app" =>
      /\ name = DistrictName
      /\ name \in DOMAIN data_store.agriculture_data
      /\ DistrictSchema(data_store.agriculture_data[name])

C16_Witness ==
  /\ DistrictName \in DOMAIN data_store.metadata
  /\ data_store.metadata[DistrictName].id = "dist_rid"
  /\ response.op = "plan_and_execute"

\* C17: no run of the chain sends the same request (endpoint and resource
\* identifier) twice.
C17_NoRetry ==
  Loaded =>
    \A i, j \in DOMAIN response.log : response.log[i] = response.log[j] => i = j

(***************************************************************************)
(* Properties of the payloads, stated on the last response under Spec      *)
(***************************************************************************)
DistrictKeys ==
  {"district_crop_extrema", "district_highest_crop_year", "district_crop_comparison"}

\* the payload of a district computation that did not find its five roles
SchemaMismatch(payload) ==
  /\ "error" \in DOMAIN payload
  /\ "columns" \in DOMAIN payload

\* C18: a district computation never answers with a schema mismatch: the
\* table the chain gave it, validated on STATE, DISTRICT, CROP and
\* PRODUCTION, has every role the computation resolves, YEAR included.
C18_ValidatedRolesSuffice ==
  (Called /\ ~response.raised) =>
    \A k \in DistrictKeys \cap DOMAIN response.answer_data :
      ~SchemaMismatch(response.answer_data[k])

\* C19: no computation stores a null payload under its key: every value of
\* answer_data is a record, the success shape of its computation or one
\* with an error field.
C19_WellFormedPayloads ==
  (Called /\ ~response.raised) =>
    \A k \in DOMAIN response.answer_data : response.answer_data[k] # PyNone

\* C20: a plan whose step is the rainfall comparison is answered, and when
\* the rainfall table is unavailable or empty or a role is not resolved the
\* payload under rainfall_compare carries an error field.
C20_RainfallErrorContract ==
  (response.op = "plan_and_execute" /\ Get(response.parsed, "intent") = "rainfall_compare") =>
    /\ ~response.raised
    /\ "rainfall_compare" \in DOMAIN response.answer_data
    /\ "note" \in DOMAIN response.answer_data["rainfall_compare"]
         => "error" \in DOMAIN response.answer_data["rainfall_compare"]

\* where a name first occurs in the question
FirstPos(q, name) == Min(Positions(q, name))

\* name occurs in q no later than every name of the list that occurs in q
Earliest(q, name, names) ==
  \A k \in DOMAIN names :
    HasName(q, names[k]) => FirstPos(q, name) <= FirstPos(q, names[k])

\* C11: when no rule matches and the keyword extractor infers an Intent,
\* its states are the known state names in the order they occur in the
\* question: state1 of rainfall_compare is the earliest known state and
\* state2 occurs after it; the state of top_crops_state is the earliest
\* known state.
C11_EntityByPosition ==
  (question # <<>> /\ Matching(question) = {} /\ ~parsed.raised) =>
    /\ parsed.intent.intent = "rainfall_compare" =>
         /\ Earliest(question, parsed.intent.state1, RainfallStates)
         /\ FirstPos(question, parsed.intent.state1)
              < FirstPos(question, parsed.intent.state2)
    /\ parsed.intent.intent = "top_crops_state" =>
         Earliest(question, parsed.intent.state, TopCropsStates)

(***************************************************************************)
(* Properties of the computations, stated on the last computation under    *)
(* SpecCompute                                                             *)
(***************************************************************************)
\* the district table cannot be had: nothing is cached under its name and
\* no request can be sent
NoDistrictTable(st) ==
  cfg.data_gov_in_api_key = "" /\ ~get_dataset(st, DistrictName).found

\* the rows of the state-level table that are of the state and the crop,
\* and of the year where the table has a year column
FallbackRows(df, a) ==
  LET state_col == find_col(df, <<"State_Name", "STATE", "State", "STATE/UT",
                                  "STATE_UT_NAME", "State Name">>)
      crop_col == find_col(df, <<"Crop", "CROP", "Crop_Name", "Commodity", "CROP_NAME">>)
      year_col == find_col(df, <<"Year", "YEAR", "year">>)
  IN  IF state_col = None \/ crop_col = None THEN <<>>
      ELSE Filter(df.rows,
                  LAMBDA r : /\ ContainsCI(CellText(r[state_col]), a.state)
                             /\ ContainsCI(CellText(r[crop_col]), a.crop)
                             /\ year_col # None => r[year_col] = Num(a.year))

\* the state-level table of a store that no request can add to
StoredStateLevel(st) == get_dataset(st, MajorCropsName).df

IsFallbackRecord(p) ==
  {"warning", "total_production"} \subseteq DOMAIN p /\ "error" \notin DOMAIN p

IsUnavailableError(p) ==
  /\ {"error", "required_columns", "alternative_queries"} \subseteq DOMAIN p
  /\ p.required_columns = <<"State", "District", "Crop", "Production", "Year">>
  /\ Len(p.alternative_queries) = 2

\* C21: when the district table is unavailable, district_highest_crop_year
\* does not raise; it answers with the state-level record and its warning
\* if and only if the state-level table has at least one row of the state,
\* crop and year, and otherwise with the error payload whose
\* required_columns are State, District, Crop, Production, Year and which
\* lists two alternative queries.
C21_FallbackIffMatchingRow ==
  (response.op = "district_highest_crop_year" /\ NoDistrictTable(response.before)) =>
    /\ ~response.raised
    /\ IF Len(FallbackRows(StoredStateLevel(response.before), response.args)) > 0
         THEN IsFallbackRecord(response.payload)
         ELSE IsUnavailableError(response.payload)

\* either way the computation answers: with the record or with the error
C21_Degrades ==
  (response.op = "district_highest_crop_year" /\ NoDistrictTable(response.before)) =>
    /\ ~response.raised
    /\ IsFallbackRecord(response.payload) \/ IsUnavailableError(response.payload)

\* the n largest of the distinct numbers of a column, all of them when the
\* column has fewer than n
Window(df, col, n) ==
  LET ys == {df.rows[i][col].n : i \in {j \in DOMAIN df.rows : df.rows[j][col].t = "num"}}
  IN  {y \in ys : Cardinality({z \in ys : z > y}) < n}

\* C22: the years a rainfall comparison reports for `years` = n on a table
\* of k distinct years are the min(n, k) largest distinct years of the
\* table, for every n >= 0.
C22_RecencyWindow ==
  (/\ response.op = "plan_and_execute"
   /\ Get(response.parsed, "intent") = "rainfall_compare"
   /\ ~response.raised
   /\ {"error", "note"} \cap DOMAIN response.answer_data["rainfall_compare"] = {}) =>
    \A s \in DOMAIN response.answer_data["rainfall_compare"] :
      \E t \in NetTables(cfg.rainfall_resource_id) :
        /\ HasCol(t, "YEAR")
        /\ Range(response.answer_data["rainfall_compare"][s].years)
             = Window(t, "YEAR", response.parsed.years)

\* the table top_crops_state works on when no request can be sent: the
\* district table of the store, or else its major crops table
StoredCropTable(st) ==
  LET d == get_dataset(st, DistrictName)
  IN  IF d.found /\ ~IsEmpty(d.df) THEN d.df ELSE get_dataset(st, MajorCropsName).df

\* the rows of the state whose year is among the n most recent years of
\* the state
RecentRowsOfState(df, state, n) ==
  LET in_state == Filter(df.rows, LAMBDA r : ContainsCI(CellText(r["State"]), state))
      recent == Window([columns |-> df.columns, rows |-> in_state], "Year", n)
  IN  Filter(in_state, LAMBDA r : r["Year"].t = "num" /\ r["Year"].n \in recent)

\* a long format answer on a stored table with the columns State, Crop,
\* Year, Production
LongAnswer ==
  /\ response.op = "top_crops_state"
  /\ cfg.data_gov_in_api_key = ""
  /\ ~response.raised
  /\ "crops" \in DOMAIN response.payload
  /\ StoredCropTable(response.before).columns = <<"State", "Crop", "Year", "Production">>

\* C23: the crops of a long format answer are at most top_n, in
\* non-increasing order of total, each total the sum of Production over
\* the rows of the state whose year is among the `years` most recent years
\* of the state, and the answer carries debug_info exactly when it has
\* fewer than top_n crops.
C23_TopCropsTotals ==
  LongAnswer =>
    LET a == response.args
        crops == response.payload.crops
        rows == RecentRowsOfState(StoredCropTable(response.before), a.state, a.years)
    IN  /\ Len(crops) <= a.top_n
        /\ \A i \in 1..(Len(crops) - 1) : crops[i].sum >= crops[i + 1].sum
        /\ \A i \in DOMAIN crops :
             crops[i].sum = SumCol(Filter(rows, LAMBDA r : CellText(r["Crop"]) = crops[i].key),
                                   "Production", 1)
        /\ "debug_info" \in DOMAIN response.payload <=> Len(crops) < a.top_n

\* the rows of the state-level table that are of the state, the crop and
\* the year: a table without a year column has no row of any year
RowsOfYear(df, a) ==
  IF find_col(df, <<"Year", "YEAR", "year">>) = None THEN <<>> ELSE FallbackRows(df, a)

\* C24: the total_production of a state-level fallback record is the sum
\* of the production over the rows of the state, the crop and the requested
\* year, whether or not the table has a year column.
C24_FallbackTotalOfYear ==
  (/\ response.op = "district_highest_crop_year"
   /\ NoDistrictTable(response.before)
   /\ ~response.raised
   /\ IsFallbackRecord(response.payload)) =>
    LET df == StoredStateLevel(response.before)
    IN  response.payload.total_production
          = SumCol(RowsOfYear(df, response.args),
                   find_col(df, <<"Production", "PRODUCTION", "Prodn", "PROD",
                                  "production_tonnes">>), 1)

\* the district table of the store is one the chain returns as it is, with
\* the columns of every role
CachedDistrict(st) ==
  /\ get_dataset(st, DistrictName).found
  /\ get_dataset(st, DistrictName).df.columns
       = <<"State_Name", "District_Name", "Crop", "Production", "Year">>
  /\ get_dataset(st, DistrictName).df.rows # <<>>

\* the rows of a state and crop
SubsetOf(df, state, crop) ==
  Filter(df.rows, LAMBDA r : /\ ContainsCI(CellText(r["State_Name"]), state)
                             /\ ContainsCI(CellText(r["Crop"]), crop))

\* the total of a district in a year of a subset
DistrictTotal(sub, d, y) ==
  SumCol(Filter(sub, LAMBDA r : r["District_Name"] = Str(d) /\ r["Year"] = Num(y)),
         "Production", 1)

\* h is the half of (state, crop) computed on the table alone: no data when
\* the subset has no year, else the district of the extreme total in the
\* most recent year of the subset
HalfAlone(h, df, state, crop, mode) ==
  LET sub == SubsetOf(df, state, crop)
      ys == {sub[i]["Year"].n : i \in {j \in DOMAIN sub : sub[j]["Year"].t = "num"}}
  IN  IF ys = {} THEN h = [none |-> TRUE]
      ELSE
        LET y == Max(ys)
            ds == {sub[i]["District_Name"].s : i \in {j \in DOMAIN sub : sub[j]["Year"] = Num(y)}}
        IN  /\ ~h.none
            /\ h.state = state /\ h.crop = crop /\ h.year = y
            /\ h.district \in ds
            /\ h.production = DistrictTotal(sub, h.district, y)
            /\ \A d \in ds : IF mode = "max" THEN DistrictTotal(sub, d, y) <= h.production
                             ELSE DistrictTotal(sub, d, y) >= h.production

ExtremaAnswer ==
  /\ response.op = "district_crop_extrema_compare"
  /\ CachedDistrict(response.before)
  /\ ~response.raised

\* C25: each half of district_crop_extrema_compare is what its own state
\* and crop give on the table: it is of the most recent year of its own
\* subset, it is no data when its subset has no rows, and it does not
\* depend on the other half.
C25_HalvesIndependent ==
  ExtremaAnswer =>
    LET df == get_dataset(response.before, DistrictName).df
        a == response.args
    IN  /\ DOMAIN response.payload = {"max", "min"}
        /\ HalfAlone(response.payload.max, df, a.state_max, a.crop_max, "max")
        /\ HalfAlone(response.payload.min, df, a.state_min, a.crop_min, "min")

\* a half without rows beside a half of an earlier year than the table's
\* last, and two halves of different years
C25_Witness ==
  /\ ExtremaAnswer
  /\ \/ /\ response.payload.max = [none |-> TRUE]
        /\ ~response.payload.min.none
        /\ response.payload.min.year = 2020
     \/ /\ ~response.payload.max.none /\ ~response.payload.min.none
        /\ response.payload.max.year # response.payload.min.year

(***************************************************************************)
(* Properties of the parser's entities, stated on the last call (parsed)   *)
(* under SpecParse                                                         *)
(***************************************************************************)
StateFields == {"state", "state1", "state2", "state_max", "state_min"}

\* C26: whichever pattern rule matched, no state of the parsed Intent is
\* spelt "karnatak": the misspelt name appears as "karnataka".
C26_SpellingNormalized ==
  (question # <<>> /\ Matching(question) # {} /\ ~parsed.raised) =>
    \A f \in StateFields \cap DOMAIN parsed.intent :
      ~(/\ Len(parsed.intent[f]) >= 1
        /\ Lower(parsed.intent[f][Len(parsed.intent[f])]) = "karnatak")

\* the names the store holds a table under
StoredNames(st) == DOMAIN st.agriculture_data \cup DOMAIN st.climate_data

\* C27: a computation leaves every table of the store as it found it: the
\* same columns, rows and cell values.
C27_CachedTablesUnchanged ==
  response.op \in {"top_crops_state", "district_crop_extrema_compare",
                   "district_highest_crop_year", "district_crop_comparison"} =>
    \A name \in StoredNames(response.before) :
      get_dataset(response.after, name) = get_dataset(response.before, name)

\* the store holds a table under the district name that passes validation
ValidStored(st) ==
  get_dataset(st, DistrictName).found /\ DistrictSchema(get_dataset(st, DistrictName).df)

\* the valid table of the store was put there by the chain
ChainCached(st) ==
  /\ ValidStored(st)
  /\ DistrictName \in DOMAIN st.metadata
  /\ st.metadata[DistrictName].id # "app"

\* C28: once the store holds a valid district table, it holds one after
\* every later step, whatever was computed, and a run of the chain on such
\* a store sends no request, returns the stored table and leaves the store
\* as it is.
C28_StickyCache ==
  [][ValidStored(data_store) =>
       /\ ValidStored(data_store')
       /\ (response'.op = "load_district" /\ response'.before = data_store) =>
            /\ response'.log = <<>>
            /\ response'.df = get_dataset(data_store, DistrictName).df
            /\ response'.after = data_store]_vars

\* a run of the chain on a store whose table an earlier run had cached
C28_Witness ==
  /\ response.op = "load_district"
  /\ ChainCached(response.before)
  /\ response.log = <<>>
  /\ response.df = get_dataset(response.before, DistrictName).df

(***************************************************************************)
(* Properties of the DataStore, stated on the last add_dataset under       *)
(* SpecStore                                                               *)
(***************************************************************************)
\* C29: after an add_dataset, get_dataset of its name returns the table it
\* was given, and every name of the metadata can be retrieved.
C29_ReadYourWrite ==
  response.op = "add_dataset" =>
    /\ get_dataset(data_store, response.name) = [found |-> TRUE, df |-> response.df]
    /\ \A n \in DOMAIN data_store.metadata : get_dataset(data_store, n).found

\* the three checks of the keyword extractor: the keywords are in the
\* question and so are the entities the check needs
RainfallCheck(q) ==
  /\ HasWord(q, "rainfall") \/ HasWord(q, "rain") \/ HasWord(q, "precipitation")
  /\ Len(Present(q, RainfallStates, 1)) >= 2

TopCropsCheck(q) ==
  /\ HasWord(q, "top") /\ HasWord(q, "crop")
  /\ Present(q, TopCropsStates, 1) # <<>>

DistrictCheck(q) ==
  /\ HasWord(q, "district") /\ (HasWord(q, "highest") \/ HasWord(q, "had"))
  /\ Present(q, DistrictStates, 1) # <<>>
  /\ Present(q, Crops, 1) # <<>>

\* C30: when no rule matches, the first of the checks rainfall, top crops,
\* district that finds its keywords and entities decides the Intent: a
\* rainfall keyword with two known states gives rainfall_compare whatever
\* else the question holds, and the Intent is unknown only when all three
\* checks fail.
C30_KeywordPrecedence ==
  (question # <<>> /\ Matching(question) = {} /\ ~parsed.raised) =>
    /\ RainfallCheck(question) => parsed.intent.intent = "rainfall_compare"
    /\ (~RainfallCheck(question) /\ TopCropsCheck(question))
         => parsed.intent.intent = "top_crops_state"
    /\ (~RainfallCheck(question) /\ ~TopCropsCheck(question) /\ DistrictCheck(question))
         => parsed.intent.intent \in {"district_highest_crop_year", "district_crop_comparison"}
    /\ parsed.intent.intent = "unknown"
         => /\ ~RainfallCheck(question)
            /\ ~TopCropsCheck(question)
            /\ ~DistrictCheck(question)

====
